---- MODULE Spec2Model ----
(***************************************************************************)
(* A model of the Jack compiler (libklein/jackcompiler): the two-scope     *)
(* symbol table, the VM writer and the single-pass recursive-descent       *)
(* compiler JackCompiler that drives them over a token stream, and the     *)
(* tokenizer that makes the token stream out of a comment-stripped text.   *)
(*                                                                         *)
(* The compiler's functions are operators over a record c that holds the   *)
(* JackCompiler's fields, the scanner position and the output written so   *)
(* far.  A Go panic is the field c.panic (a non-empty message); every      *)
(* operator passes a panicked record through unchanged, which is how the   *)
(* panic unwinds the Go call stack.                                        *)
(***************************************************************************)
EXTENDS Integers, Sequences, FiniteSets, TLC

VARIABLES
    tokens,              \* the token stream behind the TokenScanner
    pos,                 \* number of tokens scanned; Token() is tokens[pos]
    output,              \* the VM commands written to the OutputWriter
    classScopeTable,     \* SymbolTable.classScopeTable
    functionScopeTable,  \* SymbolTable.functionScopeTable
    currentClassName,    \* JackCompiler.currentClassName
    nextLabelID,         \* JackCompiler.nextLabelID
    pc,                  \* where Compile() stands
    panic,               \* the message Compile() panicked with, "" while it has not
    lastCall,            \* the latest call on the symbol table or tokenizer and its result
    tokenizer            \* the Tokenizer: its stream, FilteredReader, Scanner and fields

vars == <<tokens, pos, output, classScopeTable, functionScopeTable,
          currentClassName, nextLabelID, pc, panic, lastCall, tokenizer>>

-----------------------------------------------------------------------------
(* Symbols and the symbol table                                            *)

StaticSymbol == "static"
FieldSymbol == "field"
ArgumentSymbol == "argument"
VarSymbol == "var"
InvalidSymbol == ""

SymbolTypes == {StaticSymbol, FieldSymbol, ArgumentSymbol, VarSymbol}

FunctionScope == "FunctionScope"
ClassScope == "ClassScope"

Scopes == {FunctionScope, ClassScope}

\* The zero value Symbol{}.
ZeroSymbol == [symbolType |-> InvalidSymbol, variableType |-> "", index |-> 0]

\* make(map[string]Symbol)
EmptyTable == [n \in {} |-> ZeroSymbol]

NewSymbolTable == [classScopeTable |-> EmptyTable, functionScopeTable |-> EmptyTable]

\* The number of symbols of the kind held by the table.
nextIndex(table, symbolType) ==
    Cardinality({n \in DOMAIN table : table[n].symbolType = symbolType})

\* The table after registerSymbol: the symbol gets the next index of its kind
\* and is stored under the name, replacing what the name held.
registerSymbol(table, name, symbol) ==
    LET indexed == [symbol EXCEPT !.index = nextIndex(table, symbol.symbolType)]
    IN  [n \in DOMAIN table \cup {name} |-> IF n = name THEN indexed ELSE table[n]]

Count(s, symbolType, scope) ==
    CASE scope = ClassScope -> nextIndex(s.classScopeTable, symbolType)
      [] scope = FunctionScope -> nextIndex(s.functionScopeTable, symbolType)
      [] OTHER -> 0

Declare(s, symbol, name, scope) ==
    CASE scope = ClassScope ->
            [s EXCEPT !.classScopeTable = registerSymbol(@, name, symbol)]
      [] scope = FunctionScope ->
            [s EXCEPT !.functionScopeTable = registerSymbol(@, name, symbol)]
      [] OTHER -> s

LookupClassFirst(s, name) ==
    IF name \in DOMAIN s.classScopeTable
    THEN [symbol |-> s.classScopeTable[name], err |-> FALSE]
    ELSE IF name \in DOMAIN s.functionScopeTable
         THEN [symbol |-> s.functionScopeTable[name], err |-> FALSE]
         ELSE [symbol |-> ZeroSymbol, err |-> TRUE]

Lookup(s, name) ==
    IF name \in DOMAIN s.functionScopeTable
    THEN [symbol |-> s.functionScopeTable[name], err |-> FALSE]
    ELSE IF name \in DOMAIN s.classScopeTable
         THEN [symbol |-> s.classScopeTable[name], err |-> FALSE]
         ELSE [symbol |-> ZeroSymbol, err |-> TRUE]

ClearNoFallthrough(s, scope) ==
    CASE scope = FunctionScope -> [s EXCEPT !.functionScopeTable = EmptyTable]
      [] scope = ClassScope -> [s EXCEPT !.classScopeTable = EmptyTable]
      [] OTHER -> s

\* case FunctionScope falls through into case ClassScope.
Clear(s, scope) ==
    CASE scope = FunctionScope ->
            [s EXCEPT !.functionScopeTable = EmptyTable, !.classScopeTable = EmptyTable]
      [] scope = ClassScope -> [s EXCEPT !.classScopeTable = EmptyTable]
      [] OTHER -> s

-----------------------------------------------------------------------------
(* Tokens                                                                  *)

InvalidToken == ""
Keyword == "keyword"
SymbolTokenType == "symbol"
IntegerConstant == "integerConstant"
StringConstant == "stringConstant"
Identifier == "identifier"

\* The zero value Token{}, which Token() returns before the first Scan().
ZeroToken == [tokenType |-> InvalidToken, terminal |-> ""]

IsTokenType(t, tt) == t.tokenType = tt

\* IsTerminal(t, terminals...): the variadic arguments are the set terminals.
IsTerminal(t, terminals) == t.terminal \in terminals

-----------------------------------------------------------------------------
(* The operators below work on a record c: the JackCompiler's fields, the  *)
(* scanner position, the output written so far, the message of a panic     *)
(* ("" while there is none) and the values the latest call returned (err,  *)
(* ret, label, access).  A panic unwinds every caller: each operator       *)
(* returns a panicked record as it got it.                                 *)

\* The state after panic(msg).
Panic(c, msg) == IF c.panic # "" THEN c ELSE [c EXCEPT !.panic = msg]

-----------------------------------------------------------------------------
(* The VM writer: each command is one line of the output; a line is the    *)
(* tuple of its space-separated fields.                                    *)

ConstVMSegment == "constant"
ArgumentVMSegment == "argument"
LocalVMSegment == "local"
StaticVMSegment == "static"
ThisVMSegment == "this"
ThatVMSegment == "that"
PointerVMSegment == "pointer"
TempVMSegment == "temp"

InvalidVMOperation == ""
AddVMOperation == "add"
SubVMOperation == "sub"
NegVMOperation == "neg"
EqVMOperation == "eq"
GtVMOperation == "gt"
LtVMOperation == "lt"
AndVMOperation == "and"
OrvMOperation == "or"
NotVMOperation == "not"
MulVMOperation == "mul"
DivVMOperation == "div"

\* MachineWord(x): the conversion to int16.
MachineWord(x) == ((x + 32768) % 65536) - 32768

WriteCommand(c, command) ==
    IF c.panic # "" THEN c ELSE [c EXCEPT !.output = Append(@, command)]

WritePush(c, segment, index) == WriteCommand(c, <<"push", segment, index>>)

WritePop(c, segment, index) == WriteCommand(c, <<"pop", segment, index>>)

WriteCall(c, label, nargs) == WriteCommand(c, <<"call", label, nargs>>)

WriteFunction(c, label, nlocals) == WriteCommand(c, <<"function", label, nlocals>>)

WriteArithmetic(c, operation) ==
    CASE operation = DivVMOperation -> WriteCall(c, "Math.divide", 2)
      [] operation = MulVMOperation -> WriteCall(c, "Math.multiply", 2)
      [] OTHER -> WriteCommand(c, <<operation>>)

WriteLabel(c, label) == WriteCommand(c, <<"label", label>>)

WriteGoto(c, label) == WriteCommand(c, <<"goto", label>>)

WriteIf(c, label) == WriteCommand(c, <<"if-goto", label>>)

WriteReturn(c) == WriteCommand(c, <<"return">>)

\* The string constants of the token streams.
Strings == {"", "a", "ab", "é"}

\* range constant: the code points of the characters.
Runes(constant) ==
    CASE constant = "" -> <<>>
      [] constant = "a" -> <<97>>
      [] constant = "ab" -> <<97, 98>>
      [] constant = "é" -> <<233>>
      [] OTHER -> <<>>

\* len(constant): the number of bytes of the UTF-8 encoding.
ByteLen(constant) ==
    CASE constant = "" -> 0
      [] constant = "a" -> 1
      [] constant = "ab" -> 2
      [] constant = "é" -> 2
      [] OTHER -> 0

\* The loop of WriteStringConstant over the characters.
RECURSIVE WriteAppendChars(_, _)
WriteAppendChars(c, runes) ==
    IF runes = <<>> THEN c
    ELSE WriteAppendChars(
            WritePop(
                WriteCall(
                    WritePush(
                        WritePush(c, TempVMSegment, 0),
                        ConstVMSegment, MachineWord(Head(runes))),
                    "String.appendChar", 2),
                TempVMSegment, 1),
            Tail(runes))

WriteStringConstant(c, constant) ==
    WritePush(
        WriteAppendChars(
            WritePop(
                WriteCall(
                    WritePush(c, ConstVMSegment, MachineWord(ByteLen(constant))),
                    "String.new", 1),
                TempVMSegment, 0),
            Runes(constant)),
        TempVMSegment, 0)

-----------------------------------------------------------------------------
(* Constants of the source text.  A terminal is a string; the value of the *)
(* decimal digits of an integer constant is looked up from the literals    *)
(* the token streams are built from.                                       *)

DigitChar == <<"0", "1", "2", "3", "4", "5", "6", "7", "8", "9">>

RECURSIVE DigitsText(_)
DigitsText(ds) == IF ds = <<>> THEN "" ELSE DigitChar[Head(ds) + 1] \o DigitsText(Tail(ds))

RECURSIVE DigitsValue(_, _)
DigitsValue(ds, acc) ==
    IF ds = <<>> THEN acc ELSE DigitsValue(Tail(ds), 10 * acc + Head(ds))

\* The integer constants of the token streams, as digit sequences.
IntegerLiterals ==
    {<<0>>, <<1>>, <<2>>, <<7>>, <<0, 0, 0, 4, 2>>, <<3, 2, 7, 6, 7>>, <<3, 2, 7, 6, 8>>,
     <<6, 5, 5, 3, 5>>, <<6, 5, 5, 3, 6>>, <<9, 9, 9, 9, 9>>}

\* strconv.Atoi on the terminal of an integer constant: the value of its digits.
Atoi(terminal) ==
    IF \E ds \in IntegerLiterals : DigitsText(ds) = terminal
    THEN [value |-> DigitsValue(CHOOSE ds \in IntegerLiterals : DigitsText(ds) = terminal, 0),
          err |-> FALSE]
    ELSE [value |-> 0, err |-> TRUE]

\* Token.asInt without the check of the range.
asIntUnchecked(t) ==
    LET r == Atoi(t.terminal)
    IN  IF r.err THEN MachineWord(0) ELSE MachineWord(r.value)

\* Token.asInt: 0 when the terminal is no number of 0..32767.
asInt(t) ==
    LET r == Atoi(t.terminal)
    IN  IF r.err \/ r.value > 32767 \/ r.value < 0 THEN MachineWord(0) ELSE MachineWord(r.value)

parseIntegerConstant(token) ==
    IF token.tokenType # IntegerConstant
    THEN [value |-> 0, err |-> TRUE]
    ELSE [value |-> asInt(token), err |-> FALSE]

\* parseIdentifier returns the terminal with or without an error.
parseIdentifier(token) ==
    [value |-> token.terminal, err |-> token.tokenType # Identifier]

parseVarName(token) == parseIdentifier(token)

parseType(token) ==
    IF IsTerminal(token, {"int", "char", "boolean"})
    THEN [value |-> token.terminal, err |-> FALSE]
    ELSE parseIdentifier(token)

BinaryOps == {"+", "-", "*", "/", "&", "|", "<", ">", "="}

isBinaryOp(token) == IsTerminal(token, BinaryOps)

isUnaryOp(token) == IsTerminal(token, {"-", "~"})

parseUnaryOp(token) ==
    CASE token.terminal = "-" -> NegVMOperation
      [] token.terminal = "~" -> NotVMOperation
      [] OTHER -> InvalidVMOperation

parseBinaryOp(token) ==
    CASE token.terminal = "+" -> AddVMOperation
      [] token.terminal = "-" -> SubVMOperation
      [] token.terminal = "*" -> MulVMOperation
      [] token.terminal = "/" -> DivVMOperation
      [] token.terminal = "&" -> AndVMOperation
      [] token.terminal = "|" -> OrvMOperation
      [] token.terminal = "<" -> LtVMOperation
      [] token.terminal = ">" -> GtVMOperation
      [] token.terminal = "=" -> EqVMOperation
      [] OTHER -> InvalidVMOperation

-----------------------------------------------------------------------------
(* The compiler's helpers                                                  *)

\* tokenScanner.Token(): the token of the latest successful Scan().
nextToken(c) == IF c.pos = 0 THEN ZeroToken ELSE tokens[c.pos]

\* tokenScanner.Scan() moves to the next token and fails at the end of the
\* stream; advance() panics when it fails.
advance(c) ==
    IF c.panic # "" THEN c
    ELSE IF c.pos < Len(tokens)
         THEN [c EXCEPT !.pos = @ + 1]
         ELSE Panic(c, "Could not advance token scanner!")

\* consume(expectedTerminals...), the terminals given as a sequence: none of
\* them is consume(), which advances.
RECURSIVE consume(_, _)
consume(c, expectedTerminals) ==
    IF c.panic # "" \/ expectedTerminals = <<>> THEN c
    ELSE IF ~IsTerminal(nextToken(c), {Head(expectedTerminals)})
         THEN Panic(c, "Expected terminal")
         ELSE consume(advance(c), Tail(expectedTerminals))

consumeAny(c) == advance(c)

\* generateLabel with a counter that stays where it is.
generateLabelStuck(c) ==
    IF c.panic # "" THEN c
    ELSE [c EXCEPT !.label = "L" \o ToString(c.nextLabelID) \o ":"]

\* generateLabel: label is the prefix "L<k>:", and the counter moves on.
generateLabel(c) ==
    IF c.panic # "" THEN c
    ELSE [c EXCEPT !.nextLabelID = @ + 1,
                   !.label = "L" \o ToString(c.nextLabelID) \o ":"]

writeFunction(c, functionName, nargs) ==
    WriteFunction(c, c.currentClassName \o "." \o functionName, nargs)

\* The segment of a symbol kind.
SegmentOf(symbolType) ==
    CASE symbolType = StaticSymbol -> StaticVMSegment
      [] symbolType = ArgumentSymbol -> ArgumentVMSegment
      [] symbolType = VarSymbol -> LocalVMSegment
      [] symbolType = FieldSymbol -> ThisVMSegment
      [] OTHER -> ""

\* generateVariableAccess: access is <<segment, index>> of the variable, or a panic.
generateVariableAccess(c, varName) ==
    IF c.panic # "" THEN c
    ELSE IF Lookup(c.symbolTable, varName).err THEN Panic(c, "Unknown variable")
    ELSE IF Lookup(c.symbolTable, varName).symbol.symbolType \notin SymbolTypes
         THEN Panic(c, "Unknown symbolType")
    ELSE [c EXCEPT !.access =
            <<SegmentOf(Lookup(c.symbolTable, varName).symbol.symbolType),
              Lookup(c.symbolTable, varName).symbol.index>>]

\* segment, index := generateVariableAccess(...); WritePush(segment, index)
WritePushAccess(c) == WritePush(c, c.access[1], c.access[2])

\* segment, index := generateVariableAccess(...); WritePop(segment, index)
WritePopAccess(c) == WritePop(c, c.access[1], c.access[2])

\* SymbolTable.Declare on the compiler's table.
declare(c, symbol, name, scope) ==
    IF c.panic # "" THEN c
    ELSE [c EXCEPT !.symbolTable = Declare(@, symbol, name, scope)]

\* SymbolTable.Clear on the compiler's table.
clear(c, scope) ==
    IF c.panic # "" THEN c ELSE [c EXCEPT !.symbolTable = Clear(@, scope)]

\* return nil, and return an error.
ReturnNil(c) == [c EXCEPT !.err = FALSE]
ReturnErr(c) == [c EXCEPT !.err = TRUE]

\* return a number.
Return(c, n) == [c EXCEPT !.ret = n]

\* if err := ...; err != nil { panic(err) }
PanicIfErr(c) ==
    IF c.panic # "" THEN c
    ELSE IF c.err THEN Panic(c, "compileExpression error") ELSE c

-----------------------------------------------------------------------------
(* The compiler's functions.  A function whose code reads a state it has   *)
(* reached more than once (a token, a returned value) continues in a       *)
(* second operator that takes that state as its parameter.                 *)

RECURSIVE compileVarSequenceNames(_, _, _)
RECURSIVE compileParameterList(_)
RECURSIVE compileVarDecs(_, _)
RECURSIVE compileStatements(_)
RECURSIVE compileExpression(_)
RECURSIVE compileExpressionList(_, _)
RECURSIVE compileTerm(_)

\* compileVarSequence, after a name is declared: the comma, or the end of the loop.
compileVarSequenceMore(c, symbol, numDeclarations) ==
    IF c.panic # "" THEN c
    ELSE IF IsTerminal(nextToken(c), {","})
         THEN compileVarSequenceNames(consume(c, <<",">>), symbol, numDeclarations)
         ELSE Return(c, numDeclarations)

\* The loop of compileVarSequence: every name is declared in ClassScope.
compileVarSequenceNames(c, symbol, numDeclarations) ==
    compileVarSequenceMore(
        declare(consumeAny(c), symbol, parseIdentifier(nextToken(c)).value, ClassScope),
        symbol, MachineWord(numDeclarations + 1))

compileVarSequence(c, symbolType) ==
    consume(
        compileVarSequenceNames(
            consumeAny(c),
            [symbolType |-> symbolType,
             variableType |-> parseType(nextToken(c)).value,
             index |-> 0],
            MachineWord(0)),
        <<";">>)

compileClassVarDec(c) ==
    IF c.panic # "" THEN c
    ELSE CASE IsTerminal(nextToken(c), {"static"}) ->
                ReturnNil(compileVarSequence(consume(c, <<"static">>), StaticSymbol))
           [] IsTerminal(nextToken(c), {"field"}) ->
                ReturnNil(compileVarSequence(consume(c, <<"field">>), FieldSymbol))
           [] OTHER -> ReturnErr(c)

\* compileParameterList, after a parameter is declared: the comma, or the end.
compileParameterListMore(c) ==
    IF c.panic # "" THEN c
    ELSE IF IsTerminal(nextToken(c), {","})
         THEN compileParameterList(consume(c, <<",">>))
         ELSE c

\* compileParameterList, at the name of a parameter of the type.
compileParameterListName(c, variableType) ==
    compileParameterListMore(
        declare(consumeAny(c),
                [symbolType |-> ArgumentSymbol, variableType |-> variableType, index |-> 0],
                parseVarName(nextToken(c)).value, FunctionScope))

compileParameterList(c) ==
    compileParameterListName(consumeAny(c), parseType(nextToken(c)).value)

compileVarDec(c) ==
    IF c.panic # "" THEN c
    ELSE IF ~IsTerminal(nextToken(c), {"var"})
         THEN Return(c, MachineWord(0))
         ELSE compileVarSequence(consume(c, <<"var">>), VarSymbol)

\* The loop of compileSubroutine, after compileVarDec returned varCount.
compileVarDecsMore(c, nlocals) ==
    IF c.panic # "" THEN c
    ELSE IF c.ret = 0
         THEN Return(c, nlocals)
         ELSE compileVarDecs(c, MachineWord(nlocals + c.ret))

\* The loop of compileSubroutine over compileVarDec.
compileVarDecs(c, nlocals) == compileVarDecsMore(compileVarDec(c), nlocals)

\* compileSubroutine, after the loop returned nlocals.
compileSubroutineBody(c, name) ==
    consume(compileStatements(writeFunction(c, name, c.ret)), <<"}">>)

compileSubroutine(c, name) ==
    compileSubroutineBody(compileVarDecs(consume(c, <<"{">>), MachineWord(0)), name)

\* compileSubroutineDec, after the opening parenthesis.
compileSubroutineDecParameters(c) ==
    IF c.panic # "" THEN c
    ELSE IF ~IsTerminal(nextToken(c), {")"}) THEN compileParameterList(c) ELSE c

\* compileSubroutineDec, at the name of the subroutine.
compileSubroutineDecName(c) ==
    ReturnNil(
        compileSubroutine(
            consume(
                compileSubroutineDecParameters(consume(consumeAny(c), <<"(">>)),
                <<")">>),
            parseIdentifier(nextToken(c)).value))

\* compileSubroutineDec, after the function scope is cleared.
compileSubroutineDecKind(c) ==
    IF ~IsTerminal(nextToken(c), {"function", "constructor", "method"})
    THEN ReturnErr(c)
    ELSE compileSubroutineDecName(advance(consumeAny(c)))

compileSubroutineDec(c) ==
    IF c.panic # "" THEN c ELSE compileSubroutineDecKind(clear(c, FunctionScope))

compileArrayAccess(c, name) ==
    WritePop(
        WritePop(
            WriteArithmetic(
                WritePushAccess(
                    generateVariableAccess(
                        consume(compileExpression(consume(c, <<"[">>)), <<"]">>),
                        name)),
                AddVMOperation),
            PointerVMSegment, 1),
        ThatVMSegment, 0)

\* compileSubroutineCall, after compileExpressionList returned nargs.
compileSubroutineCallEmit(c, name) == consume(WriteCall(c, name, c.ret), <<")">>)

\* case "(" of compileSubroutineCall.
compileSubroutineCallArguments(c, name) ==
    compileSubroutineCallEmit(
        compileExpressionList(consume(c, <<"(">>), MachineWord(0)), name)

\* case "." of compileSubroutineCall, at the method name; it falls through to case "(".
compileSubroutineCallMethod(c, name) ==
    IF c.panic # "" THEN c
    ELSE IF parseIdentifier(nextToken(c)).err THEN Panic(c, "invalid identifier")
    ELSE compileSubroutineCallArguments(
            advance(c), name \o "." \o parseIdentifier(nextToken(c)).value)

\* The switch of compileSubroutineCall.
compileSubroutineCallSwitch(c, name) ==
    IF c.panic # "" THEN c
    ELSE CASE nextToken(c).terminal = "." ->
                compileSubroutineCallMethod(consume(c, <<".">>), name)
           [] nextToken(c).terminal = "(" -> compileSubroutineCallArguments(c, name)
           [] OTHER -> Panic(c, "Expected terminal ( or .")

compileSubroutineCall(c, name) ==
    IF c.panic # "" THEN c
    ELSE IF name # "" THEN compileSubroutineCallSwitch(c, name)
    ELSE IF parseIdentifier(nextToken(c)).err THEN Panic(c, "invalid identifier")
    ELSE compileSubroutineCallSwitch(advance(c), parseIdentifier(nextToken(c)).value)

compileDo(c) ==
    consume(
        WritePop(compileSubroutineCall(consume(c, <<"do">>), ""), TempVMSegment, 0),
        <<";">>)

\* compileLet, after the second advance().
compileLetAssign(c, varName) ==
    IF c.panic # "" THEN c
    ELSE IF IsTerminal(nextToken(c), {"["}) THEN Panic(c, "Array let not implemented")
    ELSE WritePopAccess(
            generateVariableAccess(
                consume(compileExpression(consume(c, <<"=">>)), <<";">>),
                varName))

\* compileLet, after the first advance(): the token is the variable's name.
compileLetName(c) == compileLetAssign(advance(c), nextToken(c).terminal)

compileLet(c) == compileLetName(advance(c))

\* compileWhile with the condition not negated.
compileWhileNotNegated(c, nextLabelPrefix) ==
    WriteLabel(
        WriteGoto(
            consume(
                compileStatements(
                    consume(
                        WriteIf(
                            PanicIfErr(
                                compileExpression(
                                    WriteLabel(c, nextLabelPrefix \o "BEGIN"))),
                            nextLabelPrefix \o "EXIT"),
                        <<")", "{">>)),
                <<"}">>),
            nextLabelPrefix \o "BEGIN"),
        nextLabelPrefix \o "EXIT")

\* compileWhile, after generateLabel returned nextLabelPrefix.
compileWhileLabelled(c, nextLabelPrefix) ==
    WriteLabel(
        WriteGoto(
            consume(
                compileStatements(
                    consume(
                        WriteIf(
                            WriteArithmetic(
                                PanicIfErr(
                                    compileExpression(
                                        WriteLabel(c, nextLabelPrefix \o "BEGIN"))),
                                NotVMOperation),
                            nextLabelPrefix \o "EXIT"),
                        <<")", "{">>)),
                <<"}">>),
            nextLabelPrefix \o "BEGIN"),
        nextLabelPrefix \o "EXIT")

\* compileWhile, with the label generated.
compileWhileLabel(c) == compileWhileLabelled(c, c.label)

compileWhile(c) == compileWhileLabel(generateLabel(consume(c, <<"while", "(">>)))

\* compileReturn, after compileExpression returned.
compileReturnValue(c) ==
    IF c.panic # "" THEN c
    ELSE IF c.err THEN WritePush(c, ConstVMSegment, MachineWord(0)) ELSE c

compileReturn(c) ==
    consume(
        WriteReturn(compileReturnValue(compileExpression(consume(c, <<"return">>)))),
        <<";">>)

\* compileIf, at the optional else.
compileIfElse(c) ==
    IF c.panic # "" THEN c
    ELSE IF IsTerminal(nextToken(c), {"else"})
         THEN consume(compileStatements(consume(c, <<"else", "{">>)), <<"}">>)
         ELSE c

\* compileIf with the jump over the else block left out.
compileIfWithoutGoto(c, labelPrefix) ==
    WriteLabel(
        compileIfElse(
            WriteLabel(
                consume(
                    compileStatements(
                        consume(
                            WriteIf(
                                WriteArithmetic(
                                    PanicIfErr(compileExpression(c)),
                                    NotVMOperation),
                                labelPrefix \o "ELSE"),
                            <<")", "{">>)),
                    <<"}">>),
                labelPrefix \o "ELSE")),
        labelPrefix \o "END")

\* compileIf, after generateLabel returned labelPrefix.
compileIfLabelled(c, labelPrefix) ==
    WriteLabel(
        compileIfElse(
            WriteLabel(
                WriteGoto(
                    consume(
                        compileStatements(
                            consume(
                                WriteIf(
                                    WriteArithmetic(
                                        PanicIfErr(compileExpression(c)),
                                        NotVMOperation),
                                    labelPrefix \o "ELSE"),
                                <<")", "{">>)),
                        <<"}">>),
                    labelPrefix \o "END"),
                labelPrefix \o "ELSE")),
        labelPrefix \o "END")

\* compileIf, with the label generated.
compileIfLabel(c) == compileIfLabelled(c, c.label)

compileIf(c) == compileIfLabel(generateLabel(consume(c, <<"if", "(">>)))

\* One statement of the loop of compileStatements.
compileStatement(c) ==
    CASE IsTerminal(nextToken(c), {"let"}) -> compileLet(c)
      [] IsTerminal(nextToken(c), {"if"}) -> compileIf(c)
      [] IsTerminal(nextToken(c), {"while"}) -> compileWhile(c)
      [] IsTerminal(nextToken(c), {"do"}) -> compileDo(c)
      [] IsTerminal(nextToken(c), {"return"}) -> compileReturn(c)
      [] OTHER -> Panic(c, "unexpected token")

compileStatements(c) ==
    IF c.panic # "" THEN c
    ELSE IF IsTerminal(nextToken(c), {"}"}) THEN c
    ELSE compileStatements(compileStatement(c))

\* compileExpression, after the first compileTerm returned: at most one
\* binary operator and a second term.
compileExpressionOp(c) ==
    IF c.panic # "" \/ c.err THEN c
    ELSE IF isBinaryOp(nextToken(c))
         THEN ReturnNil(
                WriteArithmetic(compileTerm(advance(c)), parseBinaryOp(nextToken(c))))
         ELSE ReturnNil(c)

compileExpression(c) == compileExpressionOp(compileTerm(c))

\* The loop of compileExpressionList, after compileExpression returned.
compileExpressionListMore(c, i) ==
    IF c.panic # "" THEN c
    ELSE IF c.err THEN Return(c, i)
    ELSE IF ~IsTerminal(nextToken(c), {","}) THEN Return(c, MachineWord(i + 1))
    ELSE compileExpressionList(consume(c, <<",">>), MachineWord(i + 1))

\* The loop of compileExpressionList, with i expressions compiled.
compileExpressionList(c, i) == compileExpressionListMore(compileExpression(c), i)

\* The switch of compileVarNameSubterm, after the name.
compileVarNameSubtermSwitch(c, varName) ==
    IF c.panic # "" THEN c
    ELSE CASE nextToken(c).terminal = "[" -> compileArrayAccess(c, varName)
           [] nextToken(c).terminal \in {"(", "."} -> compileSubroutineCall(c, varName)
           [] OTHER -> WritePushAccess(generateVariableAccess(c, varName))

compileVarNameSubterm(c) ==
    IF parseVarName(nextToken(c)).err THEN ReturnErr(c)
    ELSE ReturnNil(
            compileVarNameSubtermSwitch(advance(c), parseVarName(nextToken(c)).value))

\* case IsTokenType(token, Keyword) of compileTerm.
compileKeywordTerm(c) ==
    CASE IsTerminal(nextToken(c), {"true"}) ->
            ReturnNil(advance(WriteArithmetic(
                WritePush(c, ConstVMSegment, MachineWord(0)), NotVMOperation)))
      [] IsTerminal(nextToken(c), {"false"}) ->
            ReturnNil(advance(WritePush(c, ConstVMSegment, MachineWord(0))))
      [] IsTerminal(nextToken(c), {"null"}) ->
            ReturnNil(advance(WritePush(c, ConstVMSegment, MachineWord(0))))
      [] IsTerminal(nextToken(c), {"this"}) -> Panic(c, "Not implemented!")
      [] OTHER -> ReturnErr(c)

compileTerm(c) ==
    IF c.panic # "" THEN c
    ELSE CASE IsTokenType(nextToken(c), IntegerConstant) ->
                ReturnNil(advance(WritePush(c, ConstVMSegment,
                                            parseIntegerConstant(nextToken(c)).value)))
           [] IsTokenType(nextToken(c), StringConstant) ->
                Panic(WriteStringConstant(c, nextToken(c).terminal), "unexpected token")
           [] IsTokenType(nextToken(c), Keyword) -> compileKeywordTerm(c)
           [] IsTerminal(nextToken(c), {"("}) ->
                ReturnNil(consume(compileExpression(consume(c, <<"(">>)), <<")">>))
           [] isUnaryOp(nextToken(c)) ->
                ReturnNil(WriteArithmetic(compileTerm(advance(c)),
                                          parseUnaryOp(nextToken(c))))
           [] OTHER -> compileVarNameSubterm(c)

\* compileClass, at the name of the class.
compileClassName(c) ==
    IF c.panic # "" THEN c
    ELSE IF parseIdentifier(nextToken(c)).err THEN Panic(c, "invalid identifier")
    ELSE consume(
            advance([c EXCEPT !.currentClassName = parseIdentifier(nextToken(c)).value]),
            <<"{">>)

-----------------------------------------------------------------------------
(* The tokenizer (tokenizer.go)                                            *)
(*                                                                         *)
(* Text is a sequence of one-character strings; the model keeps to ASCII,  *)
(* so a rune is one byte and every length below is a length in bytes.      *)
(* A match is <<begin, end>> as FindStringIndex returns it (0-based,       *)
(* end exclusive) and <<>> stands for nil.                                 *)

Min(S) == CHOOSE m \in S : \A x \in S : m <= x
Max(S) == CHOOSE m \in S : \A x \in S : m >= x

RECURSIVE Text(_)
Text(chars) == IF chars = <<>> THEN "" ELSE Head(chars) \o Text(Tail(chars))

Quote == "\""
Newline == "\n"
Slash == "/"
Star == "*"

DigitChars == {"0", "1", "2", "3", "4", "5", "6", "7", "8", "9"}

LetterChars ==
    {"a", "b", "c", "d", "e", "f", "g", "h", "i", "j", "k", "l", "m",
     "n", "o", "p", "q", "r", "s", "t", "u", "v", "w", "x", "y", "z",
     "A", "B", "C", "D", "E", "F", "G", "H", "I", "J", "K", "L", "M",
     "N", "O", "P", "Q", "R", "S", "T", "U", "V", "W", "X", "Y", "Z"}

\* \w of the identifier pattern.
WordChars == LetterChars \cup DigitChars \cup {"_"}

\* The character class of symbolRegex.
SymbolChars ==
    {"{", "}", "[", "]", "(", ")", ".", ",", ";", "+", "-", "*", "/", "&", "|",
     "<", ">", "=", "~"}

\* unicode.IsSpace within ASCII; \s of whitespaceRegex is the same set less \v.
SpaceChars == {" ", "\t", "\n", "\f", "\r"}

\* The alternatives of keywordRegex.
Keywords ==
    {<<"c", "l", "a", "s", "s">>,
     <<"c", "o", "n", "s", "t", "r", "u", "c", "t", "o", "r">>,
     <<"f", "u", "n", "c", "t", "i", "o", "n">>,
     <<"m", "e", "t", "h", "o", "d">>,
     <<"f", "i", "e", "l", "d">>,
     <<"s", "t", "a", "t", "i", "c">>,
     <<"v", "a", "r">>,
     <<"i", "n", "t">>,
     <<"c", "h", "a", "r">>,
     <<"b", "o", "o", "l", "e", "a", "n">>,
     <<"v", "o", "i", "d">>,
     <<"t", "r", "u", "e">>,
     <<"f", "a", "l", "s", "e">>,
     <<"n", "u", "l", "l">>,
     <<"t", "h", "i", "s">>,
     <<"l", "e", "t">>,
     <<"d", "o">>,
     <<"i", "f">>,
     <<"e", "l", "s", "e">>,
     <<"w", "h", "i", "l", "e">>,
     <<"r", "e", "t", "u", "r", "n">>}

\* The 0-based positions of line that hold a character of class.
Positions(line, class) == {p \in 0 .. Len(line) - 1 : line[p + 1] \in class}

\* The leftmost of a set of positions, -1 when there is none.
Leftmost(starts) == IF starts = {} THEN -1 ELSE Min(starts)

\* The end of the run of class characters that begins at position p.
RunEnd(line, p, class) ==
    Min({q \in p + 1 .. Len(line) : q = Len(line) \/ line[q + 1] \notin class})

\* The keywords that occur in line at position p.
KeywordsAt(line, p) ==
    {k \in Keywords : p + Len(k) <= Len(line) /\ SubSeq(line, p + 1, p + Len(k)) = k}

keywordFrom(line, p) ==
    IF p < 0 THEN <<>> ELSE <<p, p + Max({Len(k) : k \in KeywordsAt(line, p)})>>

keywordRegex(line) ==
    keywordFrom(line, Leftmost({p \in 0 .. Len(line) - 1 : KeywordsAt(line, p) # {}}))

symbolFrom(p) == IF p < 0 THEN <<>> ELSE <<p, p + 1>>

symbolRegex(line) == symbolFrom(Leftmost(Positions(line, SymbolChars)))

\* \d{1,5}: at most MaxDigits digits of the run.
MaxDigits == 5

integerConstantFrom(line, p) ==
    IF p < 0 THEN <<>> ELSE <<p, Min({RunEnd(line, p, DigitChars), p + MaxDigits})>>

integerConstantRegex(line) == integerConstantFrom(line, Leftmost(Positions(line, DigitChars)))

\* The position of the quote that closes the string opened at p, -1 when a newline
\* or the end of line comes first.
ClosingQuote(line, p) ==
    IF {q \in p + 1 .. Len(line) - 1 : line[q + 1] \in {Quote, Newline}} = {} THEN -1
    ELSE IF line[Min({q \in p + 1 .. Len(line) - 1 : line[q + 1] \in {Quote, Newline}}) + 1] = Quote
         THEN Min({q \in p + 1 .. Len(line) - 1 : line[q + 1] \in {Quote, Newline}})
         ELSE -1

stringConstantFrom(line, p) == IF p < 0 THEN <<>> ELSE <<p, ClosingQuote(line, p) + 1>>

stringConstantRegex(line) ==
    stringConstantFrom(line,
        Leftmost({p \in Positions(line, {Quote}) : ClosingQuote(line, p) >= 0}))

identifierFrom(line, p) == IF p < 0 THEN <<>> ELSE <<p, RunEnd(line, p, WordChars)>>

identifierRegex(line) ==
    identifierFrom(line, Leftmost(Positions(line, LetterChars \cup {"_"})))

\* regexes[i].FindStringIndex(line), i counted from 0 as in the source.
FindStringIndex(i, line) ==
    CASE i = 0 -> keywordRegex(line)
      [] i = 1 -> symbolRegex(line)
      [] i = 2 -> integerConstantRegex(line)
      [] i = 3 -> stringConstantRegex(line)
      [] i = 4 -> identifierRegex(line)

NumRegexes == 5

\* whitespaceRegex.MatchString(text)
whitespaceRegex(text) == \A k \in 1 .. Len(text) : text[k] \in SpaceChars

\* The start position no match reaches, as matchToken initialises minRegexMatch.
NoMatchStart == 10000

\* One round of matchToken's loop: min is [index, match] so far.
matchTokenRound(min, i, match) ==
    IF /\ match # <<>>
       /\ match[1] <= min.match[1]
       /\ \/ match[1] < min.match[1]
          \/ (match[2] - match[1]) > (min.match[2] - min.match[1])
    THEN [index |-> i, match |-> match]
    ELSE min

RECURSIVE matchTokenLoop(_, _, _)
matchTokenLoop(min, i, line) ==
    IF i = NumRegexes THEN min
    ELSE matchTokenLoop(matchTokenRound(min, i, FindStringIndex(i, line)), i + 1, line)

\* What matchToken returns for the minimum found: <<begin, end, index>> and its error.
matchTokenResult(min, line) ==
    IF min.index = NumRegexes THEN [match |-> <<>>, err |-> "Unknown token"]
    ELSE IF ~whitespaceRegex(SubSeq(line, 1, min.match[1]))
         THEN [match |-> <<>>, err |-> "Could not parse"]
         ELSE [match |-> Append(min.match, min.index), err |-> ""]

matchToken(line) ==
    matchTokenResult(
        matchTokenLoop([index |-> NumRegexes, match |-> <<NoMatchStart, NoMatchStart>>],
                       0, line),
        line)

\* strings.TrimLeftFunc(data, unicode.IsSpace), by the number of characters it drops.
LeadingSpace(data) ==
    IF {p \in 0 .. Len(data) - 1 : data[p + 1] \notin SpaceChars} = {} THEN Len(data)
    ELSE Min({p \in 0 .. Len(data) - 1 : data[p + 1] \notin SpaceChars})

\* splitToken once the token is matched: matchIndex is what matchToken returned for
\* dataString.
splitTokenMatched(data, dataString, atEOF, matchIndex) ==
    IF matchIndex.err # ""
    THEN IF atEOF THEN [advance |-> 0, token |-> <<>>, isNil |-> TRUE, err |-> "Unkown token"]
         ELSE [advance |-> 0, token |-> <<>>, isNil |-> TRUE, err |-> ""]
    ELSE [advance |-> matchIndex.match[2] + (Len(data) - Len(dataString)),
          token |-> SubSeq(dataString, matchIndex.match[1] + 1, matchIndex.match[2]),
          isNil |-> FALSE, err |-> ""]

splitTokenTrimmed(data, dataString, atEOF) ==
    IF Len(dataString) = 0 THEN [advance |-> 0, token |-> <<>>, isNil |-> TRUE, err |-> ""]
    ELSE splitTokenMatched(data, dataString, atEOF, matchToken(dataString))

\* splitToken(data, atEOF): the scanner's split function.
splitToken(data, atEOF) ==
    splitTokenTrimmed(data, SubSeq(data, LeadingSpace(data) + 1, Len(data)), atEOF)

\* The token parseToken builds from the index matchToken found.
parseTokenSwitch(tokenString, regexMatch) ==
    IF regexMatch.err # "" THEN [token |-> ZeroToken, err |-> regexMatch.err]
    ELSE CASE regexMatch.match[3] = 0 ->
                [token |-> [tokenType |-> Keyword, terminal |-> Text(tokenString)], err |-> ""]
           [] regexMatch.match[3] = 1 ->
                [token |-> [tokenType |-> SymbolTokenType, terminal |-> Text(tokenString)],
                 err |-> ""]
           [] regexMatch.match[3] = 2 ->
                [token |-> [tokenType |-> IntegerConstant, terminal |-> Text(tokenString)],
                 err |-> ""]
           [] regexMatch.match[3] = 3 ->
                [token |-> [tokenType |-> StringConstant,
                            terminal |-> Text(SubSeq(tokenString, 2, Len(tokenString) - 1))],
                 err |-> ""]
           [] regexMatch.match[3] = 4 ->
                [token |-> [tokenType |-> Identifier, terminal |-> Text(tokenString)], err |-> ""]

parseToken(tokenString) == parseTokenSwitch(tokenString, matchToken(tokenString))

\* The position of the first character of class at or after position from, -1 when
\* there is none: where bufio.Reader.ReadString(delim) stops.
NextIndex(input, from, class) ==
    Leftmost({p \in from .. Len(input) - 1 : input[p + 1] \in class})

\* The loop of FilteredReader.Read that discards a block comment: ReadString('/')
\* returns the text from rpos through the slash, and str[len(str)-2] is the character
\* before the slash.  When the slash is the first character read, str is "/" and the
\* index is -1, a run-time panic.  ReadString never returns an empty string without
\* an error, so the branch on len(str) == 0 has no case.
RECURSIVE discardBlockComment(_, _, _)
discardBlockComment(input, rpos, slash) ==
    IF slash < 0 THEN [rpos |-> Len(input), err |-> "Unclosed comment!", panic |-> ""]
    ELSE IF slash = rpos
         THEN [rpos |-> slash + 1, err |-> "",
               panic |-> "runtime error: index out of range [-1]"]
         ELSE IF input[slash] = Star THEN [rpos |-> slash + 1, err |-> "", panic |-> ""]
              ELSE discardBlockComment(input, slash + 1,
                                       NextIndex(input, slash + 1, {Slash}))

RECURSIVE readLoop(_, _, _, _)

\* After a block comment: its error or panic ends Read, otherwise the loop continues.
readAfterComment(input, b, size, comment) ==
    IF comment.panic # "" \/ comment.err # ""
    THEN [b |-> b, rpos |-> comment.rpos, err |-> comment.err, panic |-> comment.panic]
    ELSE readLoop(input, comment.rpos, b, size)

\* After a line comment: newline is where ReadString('\n') stopped.
readAfterLineComment(input, b, size, newline) ==
    IF newline < 0 THEN [b |-> b, rpos |-> Len(input), err |-> "EOF", panic |-> ""]
    ELSE readLoop(input, newline + 1, b, size)

\* char == '/' at position slash, with room for a character in b.
readSlash(input, slash, b, size) ==
    IF slash + 1 = Len(input)
    THEN [b |-> Append(b, Slash), rpos |-> Len(input), err |-> "EOF", panic |-> ""]
    ELSE IF input[slash + 2] = Slash
         THEN readAfterLineComment(input, b, size, NextIndex(input, slash + 2, {Newline}))
         ELSE IF input[slash + 2] = Star
              THEN readAfterComment(input, b, size,
                      discardBlockComment(input, slash + 2,
                                          NextIndex(input, slash + 2, {Slash})))
              ELSE readLoop(input, slash + 1, Append(b, Slash), size)

\* The characters up to the next slash (at stop, the end of input when there is
\* none) are copied one by one until b is full.
readPlain(input, rpos, b, size, slash, stop) ==
    IF stop - rpos >= size - Len(b)
    THEN [b |-> b \o SubSeq(input, rpos + 1, rpos + size - Len(b)),
          rpos |-> rpos + size - Len(b), err |-> "", panic |-> ""]
    ELSE IF slash < 0
         THEN [b |-> b \o SubSeq(input, rpos + 1, Len(input)), rpos |-> Len(input),
               err |-> "EOF", panic |-> ""]
         ELSE readSlash(input, slash, b \o SubSeq(input, rpos + 1, slash), size)

readUpTo(input, rpos, b, size, slash) ==
    readPlain(input, rpos, b, size, slash, IF slash < 0 THEN Len(input) ELSE slash)

readLoop(input, rpos, b, size) ==
    IF Len(b) >= size THEN [b |-> b, rpos |-> rpos, err |-> "", panic |-> ""]
    ELSE readUpTo(input, rpos, b, size, NextIndex(input, rpos, {Slash}))

\* FilteredReader.Read(b) with cap(b) = size, the underlying reader standing at rpos:
\* the bytes written to b, the reader's new position, the error returned.
Read(input, rpos, size) == readLoop(input, rpos, <<>>, size)

\* bufio.Scanner: the initial buffer size and the largest buffer (MaxScanTokenSize).
startBufSize == 4096
MaxScanTokenSize == 65536

\* NewTokenizer(r) over the stream input.  buf is s.buf[s.start:s.end], bufLen is
\* len(s.buf), scanErr is the scanner's err, rpos the position of the FilteredReader;
\* ok and ret are what Scanner.Scan and Tokenizer.Scan returned last.
NewTokenizer(input) ==
    [input |-> input, rpos |-> 0, buf |-> <<>>, start |-> 0, end |-> 0, bufLen |-> 0,
     scanErr |-> "", token |-> <<>>, ok |-> FALSE,
     nextToken |-> ZeroToken, err |-> "", ret |-> FALSE, panic |-> ""]

\* Scanner.setErr: the first error that is not io.EOF is kept.
setErr(s, err) == IF s.scanErr \in {"", "EOF"} THEN [s EXCEPT !.scanErr = err] ELSE s

RECURSIVE scannerScan(_)

\* The end of Scanner.Scan's loop body: s.end += n, setErr(err), and around again.
scannerFill(s, r) ==
    IF r.panic # "" THEN [s EXCEPT !.panic = r.panic, !.rpos = r.rpos, !.ok = FALSE]
    ELSE scannerScan(
            IF r.err # ""
            THEN setErr([s EXCEPT !.buf = @ \o r.b, !.end = @ + Len(r.b), !.rpos = r.rpos],
                        r.err)
            ELSE [s EXCEPT !.buf = @ \o r.b, !.end = @ + Len(r.b), !.rpos = r.rpos])

scannerReadInto(s) == scannerFill(s, Read(s.input, s.rpos, s.bufLen - s.end))

\* "Is the buffer full? If so, resize."
scannerGrow(s) ==
    IF s.end # s.bufLen THEN scannerReadInto(s)
    ELSE IF s.bufLen >= MaxScanTokenSize
         THEN [setErr(s, "bufio.Scanner: token too long") EXCEPT !.ok = FALSE]
         ELSE scannerReadInto(
                [s EXCEPT !.bufLen = IF @ = 0 THEN startBufSize
                                     ELSE Min({2 * @, MaxScanTokenSize}),
                          !.end = @ - s.start, !.start = 0])

\* "Must read more data": first shift the data to the beginning of the buffer.
scannerRead(s) ==
    scannerGrow(
        IF s.start > 0 /\ (s.end = s.bufLen \/ s.start > s.bufLen \div 2)
        THEN [s EXCEPT !.end = @ - s.start, !.start = 0]
        ELSE s)

\* What Scanner.Scan does with the result r of the split function.
scannerSplit(s, r) ==
    IF r.err # "" THEN [setErr(s, r.err) EXCEPT !.ok = FALSE]
    ELSE IF ~r.isNil
         THEN [s EXCEPT !.start = @ + r.advance,
                        !.buf = SubSeq(@, r.advance + 1, Len(@)),
                        !.token = r.token, !.ok = TRUE]
         ELSE IF s.scanErr # ""
              THEN [s EXCEPT !.start = 0, !.end = 0, !.buf = <<>>, !.ok = FALSE]
              ELSE scannerRead(s)

\* bufio.Scanner.Scan with splitToken as its split function.
scannerScan(s) ==
    IF s.end > s.start \/ s.scanErr # ""
    THEN scannerSplit(s, splitToken(s.buf, s.scanErr # ""))
    ELSE scannerRead(s)

tokenizerParsed(t, parsed) ==
    IF parsed.err # "" THEN [t EXCEPT !.err = parsed.err, !.ret = FALSE]
    ELSE [t EXCEPT !.nextToken = parsed.token, !.ret = TRUE]

tokenizerScanned(t) ==
    IF t.panic # "" THEN t
    ELSE IF ~t.ok THEN [t EXCEPT !.ret = FALSE]
         ELSE tokenizerParsed(t, parseToken(t.token))

\* Tokenizer.Scan()
tokenizerScan(t) == tokenizerScanned(scannerScan(t))

\* Tokenizer.Err()
tokenizerErr(t) == t.err

\* Tokenizer.Token()
tokenizerToken(t) == t.nextToken

-----------------------------------------------------------------------------
(* The symbol table on its own: any sequence of calls on one SymbolTable.  *)

\* The names and declared types the calls are made with.
TableNames == {"a", "b"}
TableTypes == {"int"}

symbolTable == [classScopeTable |-> classScopeTable,
                functionScopeTable |-> functionScopeTable]

NoCall == [op |-> "none"]

InitTable ==
    /\ tokens = <<>>
    /\ pos = 0
    /\ output = <<>>
    /\ classScopeTable = NewSymbolTable.classScopeTable
    /\ functionScopeTable = NewSymbolTable.functionScopeTable
    /\ currentClassName = ""
    /\ nextLabelID = 0
    /\ pc = "table"
    /\ panic = ""
    /\ lastCall = NoCall
    /\ tokenizer = NewTokenizer(<<>>)

CallDeclare ==
    \E name \in TableNames, symbolType \in SymbolTypes, variableType \in TableTypes,
       scope \in Scopes :
        LET symbol == [symbolType |-> symbolType, variableType |-> variableType, index |-> 0]
            s == Declare(symbolTable, symbol, name, scope)
        IN  /\ pc = "table"
            /\ classScopeTable' = s.classScopeTable
            /\ functionScopeTable' = s.functionScopeTable
            /\ lastCall' = [op |-> "Declare", name |-> name, scope |-> scope]
            /\ UNCHANGED <<tokens, pos, output, currentClassName, nextLabelID, pc, panic,
                           tokenizer>>

CallClear ==
    \E scope \in Scopes :
        LET s == Clear(symbolTable, scope)
        IN  /\ pc = "table"
            /\ classScopeTable' = s.classScopeTable
            /\ functionScopeTable' = s.functionScopeTable
            /\ lastCall' = [op |-> "Clear", scope |-> scope]
            /\ UNCHANGED <<tokens, pos, output, currentClassName, nextLabelID, pc, panic,
                           tokenizer>>

CallLookup ==
    \E name \in TableNames :
        /\ pc = "table"
        /\ lastCall' = [op |-> "Lookup", name |-> name, ret |-> Lookup(symbolTable, name)]
        /\ UNCHANGED <<tokens, pos, output, classScopeTable, functionScopeTable,
                       currentClassName, nextLabelID, pc, panic, tokenizer>>

CallCount ==
    \E symbolType \in SymbolTypes, scope \in Scopes :
        /\ pc = "table"
        /\ lastCall' = [op |-> "Count", symbolType |-> symbolType, scope |-> scope,
                        ret |-> Count(symbolTable, symbolType, scope)]
        /\ UNCHANGED <<tokens, pos, output, classScopeTable, functionScopeTable,
                       currentClassName, nextLabelID, pc, panic, tokenizer>>

NextTable == CallDeclare \/ CallClear \/ CallLookup \/ CallCount

SpecTable == InitTable /\ [][NextTable]_vars

-----------------------------------------------------------------------------
(* The token streams Compile() is run on.                                  *)

\* The tokens as parseToken classifies them.
KW(terminal) == [tokenType |-> Keyword, terminal |-> terminal]
SY(terminal) == [tokenType |-> SymbolTokenType, terminal |-> terminal]
ID(terminal) == [tokenType |-> Identifier, terminal |-> terminal]
INT(digits) == [tokenType |-> IntegerConstant, terminal |-> DigitsText(digits)]
STR(contents) == [tokenType |-> StringConstant, terminal |-> contents]

\* The most statics and the most fields of a class.
MaxFields == 2
\* The most parameters, and the most locals, of a subroutine.
MaxDecls == 2
\* The most subroutines of a class.
MaxSubroutines == 2
\* The most argument expressions of a call.
MaxArgs == 2
\* The most binary operators of an expression.
MaxOps == 2
\* The deepest nesting of if and while statements.
MaxNesting == 2

RECURSIVE Flatten(_)
Flatten(seqs) == IF seqs = <<>> THEN <<>> ELSE Head(seqs) \o Flatten(Tail(seqs))

\* prefix1, ..., prefixn
Names(prefix, n) == [i \in 1 .. n |-> prefix \o ToString(i)]

\* items[1] sep items[2] sep ... : the items are token sequences.
RECURSIVE Separated(_, _)
Separated(items, sep) ==
    IF items = <<>> THEN <<>>
    ELSE IF Len(items) = 1 THEN Head(items)
    ELSE Head(items) \o <<sep>> \o Separated(Tail(items), sep)

\* <keyword> <type> name (, name)* ;   or nothing when there is no name
VarDecTokens(keyword, type, names) ==
    IF names = <<>> THEN <<>>
    ELSE <<KW(keyword), type>>
         \o Separated([i \in 1 .. Len(names) |-> <<ID(names[i])>>], SY(","))
         \o <<SY(";")>>

\* <type> name (, <type> name)*
ParameterTokens(type, names) ==
    Separated([i \in 1 .. Len(names) |-> <<type, ID(names[i])>>], SY(","))

SubroutineKinds == {"function", "method", "constructor"}

SubroutineName(kind) ==
    CASE kind = "function" -> "f" [] kind = "method" -> "get" [] OTHER -> "new"

\* <kind> <returnType> <name> ( <parameters> ) { <varDec> <statements> }
SubroutineTokens(kind, returnType, type, params, locals, statements) ==
    <<KW(kind), returnType, ID(SubroutineName(kind)), SY("(")>>
    \o ParameterTokens(type, params)
    \o <<SY(")"), SY("{")>>
    \o VarDecTokens("var", type, locals)
    \o statements
    \o <<SY("}")>>

\* class A { <classVarDecs> <subroutines> }
ClassTokens(classVarDecs, subroutines) ==
    <<KW("class"), ID("A"), SY("{")>> \o classVarDecs \o Flatten(subroutines) \o <<SY("}")>>

ReturnNothing == <<KW("return"), SY(";")>>
ReturnTerm(term) == <<KW("return"), term, SY(";")>>

\* The statements of a subroutine of a class with fields.
Bodies(kind, fields) ==
    {ReturnNothing}
    \cup (IF kind = "constructor" THEN {ReturnTerm(KW("this"))} ELSE {})
    \cup (IF kind = "method" /\ fields # <<>> THEN {ReturnTerm(ID(fields[Len(fields)]))} ELSE {})

\* The subroutines of a class with the fields: n parameters and n locals each.
Subroutines(fields) ==
    UNION {
        {SubroutineTokens(kind, KW("void"), KW("int"), Names("a", n), Names("v", n), body) :
            n \in 0 .. MaxDecls, body \in Bodies(kind, fields)} :
        kind \in SubroutineKinds}

RECURSIVE SeqsUpTo(_, _)
SeqsUpTo(S, n) ==
    IF n = 0 THEN {<<>>}
    ELSE LET shorter == SeqsUpTo(S, n - 1)
         IN  shorter \cup {<<x>> \o q : x \in S, q \in {r \in shorter : Len(r) = n - 1}}

\* Classes with fields and up to MaxSubroutines subroutines.
ClassPrograms ==
    UNION {
        {ClassTokens(VarDecTokens("field", KW("int"), Names("x", nf)), subs) :
            subs \in SeqsUpTo(Subroutines(Names("x", nf)), MaxSubroutines)} :
        nf \in 0 .. MaxFields}

\* What may follow the closing brace of the class.
Trailers == {<<>>, <<SY("}")>>, <<KW("class"), ID("B")>>}

\* A class without subroutines, with ns statics and nf fields.
BareClass(ns, nf) ==
    ClassTokens(VarDecTokens("static", KW("int"), Names("s", ns))
                \o VarDecTokens("field", KW("int"), Names("x", nf)), <<>>)

\* Classes without subroutines, and what follows them.
BareClassPrograms ==
    {BareClass(ns, nf) \o trailer :
        ns \in 0 .. MaxFields, nf \in 0 .. MaxFields, trailer \in Trailers}

\* class A { function void f(B a1) { var B v1; <statements> return; } }
StatementProgram(statements) ==
    ClassTokens(<<>>,
        <<SubroutineTokens("function", KW("void"), ID("B"), <<"a1">>, <<"v1">>,
                           statements \o ReturnNothing)>>)

\* What a call names: a subroutine, a method of a variable, of a parameter,
\* and a subroutine of a class.
CallTargets ==
    {<<ID("g")>>,
     <<ID("v1"), SY("."), ID("m")>>,
     <<ID("a1"), SY("."), ID("m")>>,
     <<ID("C"), SY("."), ID("m")>>}

\* The terms of the argument lists and of the expressions.
Terms == {INT(<<1>>), ID("a1")}

\* do <target> ( <args> ) ;
DoTokens(target, args) ==
    <<KW("do")>> \o target \o <<SY("(")>>
    \o Separated([i \in 1 .. Len(args) |-> <<args[i]>>], SY(","))
    \o <<SY(")"), SY(";")>>

\* One do statement, with up to MaxArgs arguments.
CallPrograms ==
    {StatementProgram(DoTokens(target, args)) :
        target \in CallTargets, args \in SeqsUpTo(Terms, MaxArgs)}

ExpressionOps == {"+", "-", "*"}

\* t1 op1 t2 ... opN tN+1
ExpressionTokens(terms, ops) ==
    <<terms[1]>> \o Flatten([i \in 1 .. Len(ops) |-> <<SY(ops[i]), terms[i + 1]>>])

\* let v1 = <expression> ;
LetTokens(terms, ops) ==
    <<KW("let"), ID("v1"), SY("=")>> \o ExpressionTokens(terms, ops) \o <<SY(";")>>

\* One let statement, with up to MaxOps binary operators.
ExpressionPrograms ==
    UNION {
        {StatementProgram(LetTokens(terms, ops)) :
            terms \in [1 .. n + 1 -> Terms], ops \in [1 .. n -> ExpressionOps]} :
        n \in 0 .. MaxOps}

\* let v1 [ <index> ] = <value> ;
ArrayLetPrograms ==
    {StatementProgram(<<KW("let"), ID("v1"), SY("["), index, SY("]"), SY("="), value, SY(";")>>) :
        index \in Terms, value \in Terms}

\* let v1 = a1 [ <index> ] ;
ArrayReadPrograms ==
    {StatementProgram(<<KW("let"), ID("v1"), SY("="), ID("a1"), SY("["), index, SY("]"), SY(";")>>) :
        index \in Terms}

\* let v1 = "<constant>" ;
StringPrograms ==
    {StatementProgram(<<KW("let"), ID("v1"), SY("="), STR(constant), SY(";")>>) :
        constant \in Strings}

\* A condition is an expression: its terms and its operators.
SimpleCondition == [terms |-> <<ID("a1")>>, ops |-> <<>>]

Conditions == {SimpleCondition, [terms |-> <<ID("a1"), INT(<<1>>)>>, ops |-> <<"<">>]}

\* A statement is its kind ("let", "if", "ifelse", "while"), its condition and
\* its blocks; a block is a sequence of statements.  The let is `let v1 = 1;`.
SimpleStatement ==
    [kind |-> "let", cond |-> SimpleCondition, then |-> <<>>, else |-> <<>>]

RECURSIVE Blocks(_)

\* The if and while statements over the conditions, nested up to the depth:
\* one of the two blocks of an if with else holds no statement or the let.
ControlStatements(conds, depth) ==
    {[kind |-> "if", cond |-> cond, then |-> block, else |-> <<>>] :
        cond \in conds, block \in Blocks(depth - 1)}
    \cup {[kind |-> "ifelse", cond |-> cond, then |-> block, else |-> other] :
            cond \in conds, block \in Blocks(depth - 1), other \in Blocks(0)}
    \cup {[kind |-> "ifelse", cond |-> cond, then |-> other, else |-> block] :
            cond \in conds, block \in Blocks(depth - 1), other \in Blocks(0)}
    \cup {[kind |-> "while", cond |-> cond, then |-> block, else |-> <<>>] :
            cond \in conds, block \in Blocks(depth - 1)}

\* The blocks whose statements nest up to the depth.
Blocks(depth) ==
    {<<>>, <<SimpleStatement>>}
    \cup (IF depth = 0 THEN {}
          ELSE {<<statement>> : statement \in ControlStatements({SimpleCondition}, depth)})

RECURSIVE BlockTokens(_)

\* let v1 = 1 ;   if ( <cond> ) { <then> } [else { <else> }]   while ( <cond> ) { <then> }
StatementTokens(statement) ==
    CASE statement.kind = "let" -> LetTokens(<<INT(<<1>>)>>, <<>>)
      [] statement.kind = "if" ->
            <<KW("if"), SY("(")>>
            \o ExpressionTokens(statement.cond.terms, statement.cond.ops)
            \o <<SY(")"), SY("{")>> \o BlockTokens(statement.then) \o <<SY("}")>>
      [] statement.kind = "ifelse" ->
            <<KW("if"), SY("(")>>
            \o ExpressionTokens(statement.cond.terms, statement.cond.ops)
            \o <<SY(")"), SY("{")>> \o BlockTokens(statement.then) \o <<SY("}")>>
            \o <<KW("else"), SY("{")>> \o BlockTokens(statement.else) \o <<SY("}")>>
      [] OTHER ->
            <<KW("while"), SY("(")>>
            \o ExpressionTokens(statement.cond.terms, statement.cond.ops)
            \o <<SY(")"), SY("{")>> \o BlockTokens(statement.then) \o <<SY("}")>>

BlockTokens(block) ==
    IF block = <<>> THEN <<>>
    ELSE StatementTokens(Head(block)) \o BlockTokens(Tail(block))

\* The if and while statements the compiler is run on.
IfStatements ==
    {statement \in ControlStatements(Conditions, MaxNesting) :
        statement.kind \in {"if", "ifelse"}}

WhileStatements ==
    {statement \in ControlStatements(Conditions, MaxNesting) : statement.kind = "while"}

IfPrograms == {StatementProgram(StatementTokens(statement)) : statement \in IfStatements}

WhilePrograms ==
    {StatementProgram(StatementTokens(statement)) : statement \in WhileStatements}

\* let v1 = <integer constant> ;
IntegerPrograms ==
    {StatementProgram(LetTokens(<<INT(digits)>>, <<>>)) : digits \in IntegerLiterals}

\* class A { function void <name> ( <parameters> ) { <varDec> return ; } }
HeaderProgram(name, parameters, varDec) ==
    ClassTokens(<<>>,
        <<<<KW("function"), KW("void"), name, SY("(")>> \o parameters
          \o <<SY(")"), SY("{")>> \o varDec \o ReturnNothing \o <<SY("}")>>>>)

\* Classes with one declaration whose type or name is an integer constant:
\* field 7 x1;  static int 5;  var 7 v1;  var int 5;  (7 a1)  (int 5)
\* function void 3()
MalformedPrograms ==
    {ClassTokens(<<KW("field"), INT(<<7>>), ID("x1"), SY(";")>>, <<>>),
     ClassTokens(<<KW("static"), KW("int"), INT(<<5>>), SY(";")>>, <<>>),
     HeaderProgram(ID("f"), <<>>, <<KW("var"), INT(<<7>>), ID("v1"), SY(";")>>),
     HeaderProgram(ID("f"), <<>>, <<KW("var"), KW("int"), INT(<<5>>), SY(";")>>),
     HeaderProgram(ID("f"), <<INT(<<7>>), ID("a1")>>, <<>>),
     HeaderProgram(ID("f"), <<KW("int"), INT(<<5>>)>>, <<>>),
     HeaderProgram(INT(<<3>>), <<>>, <<>>)}

\* if (a1) { }   and   while (a1) { }
EmptyStatements ==
    {[kind |-> kind, cond |-> SimpleCondition, then |-> <<>>, else |-> <<>>] :
        kind \in {"if", "while"}}

\* An if and a while, in either order.
StatementPairs ==
    {<<first, second>> \in EmptyStatements \X EmptyStatements : first # second}

\* An if or a while whose body holds an if and a while, and an if with one of them
\* in each of its blocks.
SiblingStatements ==
    {[kind |-> kind, cond |-> SimpleCondition, then |-> pair, else |-> <<>>] :
        kind \in {"if", "while"}, pair \in StatementPairs}
    \cup {[kind |-> "ifelse", cond |-> SimpleCondition, then |-> <<pair[1]>>,
           else |-> <<pair[2]>>] : pair \in StatementPairs}

\* The statements of one subroutine: two in a row, or one that holds two.
LabelBlocks == StatementPairs \cup {<<statement>> : statement \in SiblingStatements}

\* class A { function void f1(B a1) { <block 1> return; } function void f2(B a1) ... }
LabelProgram(blocks) ==
    ClassTokens(<<>>,
        [i \in 1 .. Len(blocks) |->
            <<KW("function"), KW("void"), ID(Names("f", Len(blocks))[i]), SY("(")>>
            \o ParameterTokens(ID("B"), <<"a1">>)
            \o <<SY(")"), SY("{")>> \o BlockTokens(blocks[i]) \o ReturnNothing
            \o <<SY("}")>>])

\* Terms as token sequences: a constant, a variable, a keyword constant, a unary
\* operation, an expression in parentheses, a call and an array entry.
StackTerms ==
    {<<INT(<<1>>)>>, <<ID("a1")>>, <<KW("true")>>, <<SY("-"), ID("a1")>>,
     <<SY("("), ID("a1"), SY("+"), INT(<<1>>), SY(")")>>,
     <<ID("g"), SY("("), ID("a1"), SY(","), INT(<<1>>), SY(")")>>,
     <<ID("a1"), SY("["), INT(<<1>>), SY("]")>>}

StackOps == {"+", "<", "*"}

\* What compileExpression is run on: a term, two terms around a binary operator,
\* and the same with a term left out.
StackExpressions ==
    StackTerms
    \cup {first \o <<SY(op)>> \o second :
            first \in StackTerms, op \in StackOps, second \in StackTerms}
    \cup {first \o <<SY(op)>> : first \in StackTerms, op \in StackOps}
    \cup {<<SY("-")>>, <<SY("~")>>, <<SY("("), SY(")")>>}

\* let v1 = <expression> ;
StackPrograms ==
    {StatementProgram(<<KW("let"), ID("v1"), SY("=")>> \o expression \o <<SY(";")>>) :
        expression \in StackExpressions}

\* Classes of up to MaxSubroutines subroutines with if and while statements.
LabelPrograms == {LabelProgram(blocks) : blocks \in SeqsUpTo(LabelBlocks, MaxSubroutines)}

Programs ==
    ClassPrograms \cup BareClassPrograms \cup CallPrograms \cup ExpressionPrograms
    \cup ArrayLetPrograms \cup ArrayReadPrograms \cup StringPrograms
    \cup IfPrograms \cup WhilePrograms \cup IntegerPrograms \cup MalformedPrograms
    \cup LabelPrograms \cup StackPrograms

-----------------------------------------------------------------------------
(* Compile(): the steps of compileClass.                                   *)

\* The compiler and its collaborators as the record the operators work on.
compiler ==
    [pos |-> pos, symbolTable |-> symbolTable, output |-> output,
     currentClassName |-> currentClassName, nextLabelID |-> nextLabelID,
     panic |-> panic, err |-> FALSE, ret |-> 0, label |-> "", access |-> <<"", 0>>]

\* NewJackCompiler over a fresh tokenizer and writer.
Init ==
    /\ tokens \in Programs
    /\ pos = 0
    /\ output = <<>>
    /\ classScopeTable = NewSymbolTable.classScopeTable
    /\ functionScopeTable = NewSymbolTable.functionScopeTable
    /\ currentClassName = ""
    /\ nextLabelID = 0
    /\ pc = "Compile"
    /\ panic = ""
    /\ lastCall = NoCall
    /\ tokenizer = NewTokenizer(<<>>)

\* The step leaves the compiler as c and goes on at next, unless it panicked.
Become(c, next) ==
    /\ pos' = c.pos
    /\ output' = c.output
    /\ classScopeTable' = c.symbolTable.classScopeTable
    /\ functionScopeTable' = c.symbolTable.functionScopeTable
    /\ currentClassName' = c.currentClassName
    /\ nextLabelID' = c.nextLabelID
    /\ panic' = c.panic
    /\ pc' = IF c.panic # "" THEN "panic" ELSE next
    /\ UNCHANGED <<tokens, lastCall, tokenizer>>

\* Compile() and compileClass up to the opening brace.
CompileClassHead ==
    /\ pc = "Compile"
    /\ \E c1 \in {compileClassName(
                        clear(consume(advance(compiler), <<"class">>), ClassScope))} :
          Become(c1, "compileClassVarDec")

\* One round of the loop over compileClassVarDec.
CompileClassVarDec ==
    /\ pc = "compileClassVarDec"
    /\ \E c1 \in {compileClassVarDec(compiler)} :
          Become(c1, IF c1.err THEN "compileSubroutineDec" ELSE "compileClassVarDec")

\* One round of the loop over compileSubroutineDec.
CompileSubroutineDec ==
    /\ pc = "compileSubroutineDec"
    /\ \E c1 \in {compileSubroutineDec(compiler)} :
          Become(c1, IF c1.err THEN "consumeClassEnd" ELSE "compileSubroutineDec")

\* The closing brace of the class, after which Compile() returns.
CompileClassEnd ==
    /\ pc = "consumeClassEnd"
    /\ \E c1 \in {consume(compiler, <<"}">>)} : Become(c1, "done")

Next == CompileClassHead \/ CompileClassVarDec \/ CompileSubroutineDec \/ CompileClassEnd

Spec == Init /\ [][Next]_vars

-----------------------------------------------------------------------------
(* The tokenizer on its own: a caller that scans a stream to its end, as   *)
(* JackCompiler.advance does token by token, and then asks for the error.  *)

\* The pieces the short streams are made of: the keyword do letter by letter, a
\* symbol, white space, the characters of comments, a quote and a character of no
\* token class.
Pieces ==
    {<<"d">>, <<"o">>, <<"=">>, <<" ">>, <<Newline>>, <<Slash>>, <<Star>>, <<Quote>>,
     <<"#">>, <<Slash, Star>>, <<Star, Slash>>, <<Slash, Slash>>}

\* The largest number of pieces in a stream.
MaxPieces == 4

RECURSIVE Streams(_)
Streams(n) ==
    IF n = 0 THEN {<<>>}
    ELSE Streams(n - 1) \cup {s \o p : s \in Streams(n - 1), p \in Pieces}

Spaces(n) == [i \in 1 .. n |-> " "]

\* Words behind enough white space to bring them to the end of the scanner's
\* initial buffer.
PaddedWords ==
    {<<"c", "l", "a", "s", "s", "r", "o", "o", "m">>, <<"c", "l", "a", "s", "s">>,
     <<"d", "o">>, <<"d", "o", "d">>, <<"=", "=", "=">>}

PaddedStreams ==
    {Spaces(n) \o w : n \in startBufSize - 9 .. startBufSize, w \in PaddedWords}

\* The streams the tokenizer is run on: those of up to n pieces and the padded ones.
Inputs(n) == Streams(n) \cup PaddedStreams

InitTokenizer ==
    /\ tokenizer \in {NewTokenizer(input) : input \in Inputs(MaxPieces)}
    /\ tokens = <<>>
    /\ pos = 0
    /\ output = <<>>
    /\ classScopeTable = NewSymbolTable.classScopeTable
    /\ functionScopeTable = NewSymbolTable.functionScopeTable
    /\ currentClassName = ""
    /\ nextLabelID = 0
    /\ pc = "Scan"
    /\ panic = ""
    /\ lastCall = NoCall

\* One call of Scan(); when it returns true the caller takes Token().
Scan ==
    /\ pc = "Scan"
    /\ \E t \in {tokenizerScan(tokenizer)} :
          /\ tokenizer' = t
          /\ panic' = t.panic
          /\ pc' = IF t.panic # "" THEN "panic" ELSE IF t.ret THEN "Scan" ELSE "Err"
          /\ tokens' = IF t.panic = "" /\ t.ret THEN Append(tokens, tokenizerToken(t))
                       ELSE tokens
          /\ pos' = Len(tokens')
          /\ lastCall' = [op |-> "Scan", ret |-> t.ret]
    /\ UNCHANGED <<output, classScopeTable, functionScopeTable, currentClassName,
                   nextLabelID>>

\* Err() after Scan() has returned false.
Err ==
    /\ pc = "Err"
    /\ lastCall' = [op |-> "Err", ret |-> tokenizerErr(tokenizer)]
    /\ pc' = "done"
    /\ UNCHANGED <<tokenizer, tokens, pos, output, classScopeTable, functionScopeTable,
                   currentClassName, nextLabelID, panic>>

NextTokenizer == Scan \/ Err

SpecTokenizer == InitTokenizer /\ [][NextTokenizer]_vars

-----------------------------------------------------------------------------
(* The split function under any delivery of the text: the loop of          *)
(* bufio.Scanner.Scan over a reader that hands over the comment-stripped   *)
(* text in pieces of any size, with io.EOF together with the last piece or *)
(* after it.  The buffer is taken to be large enough for the text.         *)

\* The pieces of the texts: the keyword do letter by letter, a symbol, a space, a
\* quote and a character of no token class.
TextPieces == {<<"d">>, <<"o">>, <<"=">>, <<" ">>, <<Quote>>, <<"#">>}

RECURSIVE Texts(_)
Texts(n) ==
    IF n = 0 THEN {<<>>}
    ELSE Texts(n - 1) \cup {s \o p : s \in Texts(n - 1), p \in TextPieces}

InitSplit ==
    /\ tokenizer \in {NewTokenizer(text) : text \in Texts(MaxPieces)}
    /\ tokens = <<>>
    /\ pos = 0
    /\ output = <<>>
    /\ classScopeTable = NewSymbolTable.classScopeTable
    /\ functionScopeTable = NewSymbolTable.functionScopeTable
    /\ currentClassName = ""
    /\ nextLabelID = 0
    /\ pc = "read"
    /\ panic = ""
    /\ lastCall = NoCall

\* The scanner after a Read that returned the next n characters, with io.EOF or
\* without.
delivered(s, n, eof) ==
    [s EXCEPT !.buf = @ \o SubSeq(s.input, s.rpos + 1, s.rpos + n),
              !.end = @ + n, !.rpos = @ + n,
              !.scanErr = IF eof THEN "EOF" ELSE @]

\* "Must read more data": the reader returns at least one character, or io.EOF
\* once the text is at its end; then the loop is at its head again.
Deliver ==
    /\ pc = "read"
    /\ \E n \in 0 .. Len(tokenizer.input) - tokenizer.rpos, eof \in BOOLEAN :
          /\ n = 0 => eof
          /\ eof => tokenizer.rpos + n = Len(tokenizer.input)
          /\ tokenizer' = delivered(tokenizer, n, eof)
          /\ lastCall' = [op |-> "Read", ret |-> n]
    /\ pc' = "split"
    /\ UNCHANGED <<tokens, pos, output, classScopeTable, functionScopeTable,
                   currentClassName, nextLabelID, panic>>

\* The scanner after the split function returned r on the data it holds.
splitReturned(s, r) ==
    IF r.err # "" THEN [setErr(s, r.err) EXCEPT !.ok = FALSE, !.ret = FALSE]
    ELSE IF ~r.isNil
         THEN tokenizerScanned(
                [s EXCEPT !.start = @ + r.advance,
                          !.buf = SubSeq(@, r.advance + 1, Len(@)),
                          !.token = r.token, !.ok = TRUE])
         ELSE [s EXCEPT !.ok = FALSE, !.ret = FALSE]

\* Where the loop of Scanner.Scan goes on: a token ends this Scan() and the next
\* one splits again while there is data or an error; without a token the scanner
\* reads, unless an error (io.EOF too) ends the scan.
afterSplit(s) ==
    IF s.ret THEN (IF s.end > s.start \/ s.scanErr # "" THEN "split" ELSE "read")
    ELSE IF s.scanErr # "" THEN "done" ELSE "read"

\* splitToken is called on the data held, atEOF telling whether the reader has
\* reported an error; a token is parsed and handed to the caller.
CallSplitToken ==
    /\ pc = "split"
    /\ \E s \in {splitReturned(tokenizer,
                                splitToken(tokenizer.buf, tokenizer.scanErr # ""))} :
          /\ tokenizer' = s
          /\ pc' = afterSplit(s)
          /\ tokens' = IF s.ret THEN Append(tokens, tokenizerToken(s)) ELSE tokens
          /\ pos' = Len(tokens')
          /\ lastCall' = [op |-> "splitToken", ret |-> s.ret]
    /\ UNCHANGED <<output, classScopeTable, functionScopeTable, currentClassName,
                   nextLabelID, panic>>

NextSplit == Deliver \/ CallSplitToken

SpecSplit == InitSplit /\ [][NextSplit]_vars

-----------------------------------------------------------------------------
(* Claims about the symbol table, checked under SpecTable.                 *)

\* The names of the kind held by one scope's table.
Held(scope, symbolType) ==
    LET table == IF scope = ClassScope THEN classScopeTable ELSE functionScopeTable
    IN  {n \in DOMAIN table : table[n].symbolType = symbolType}

IndexIn(scope, name) ==
    IF scope = ClassScope THEN classScopeTable[name].index
                          ELSE functionScopeTable[name].index

\* C2: after any sequence of Declare calls, re-declarations included, the
\* symbols of every (scope, kind) have pairwise distinct indices that are
\* exactly 0..n-1, and Count(kind, scope) is n.
C2_IndicesContiguous ==
    \A scope \in Scopes, symbolType \in SymbolTypes :
        LET held == Held(scope, symbolType)
        IN  /\ \A m, n \in held : m # n => IndexIn(scope, m) # IndexIn(scope, n)
            /\ {IndexIn(scope, n) : n \in held} = 0 .. (Cardinality(held) - 1)
            /\ Count(symbolTable, symbolType, scope) = Cardinality(held)

\* C4: Clear(FunctionScope) empties the subroutine-scope map and the
\* class-scope map; Clear(ClassScope) empties the class-scope map and leaves
\* every subroutine-scope symbol as it was.
C4_ClearFrame ==
    [][\A scope \in Scopes :
          lastCall' = [op |-> "Clear", scope |-> scope] =>
              /\ scope = FunctionScope =>
                    /\ functionScopeTable' = EmptyTable
                    /\ classScopeTable' = EmptyTable
              /\ scope = ClassScope =>
                    /\ classScopeTable' = EmptyTable
                    /\ functionScopeTable' = functionScopeTable]_vars

\* Clear(ClassScope) has just run on a table whose subroutine scope holds symbols.
C4_Witness ==
    /\ lastCall = [op |-> "Clear", scope |-> ClassScope]
    /\ functionScopeTable # EmptyTable
    /\ classScopeTable = EmptyTable

\* C5: Lookup(name) returns the subroutine-scope symbol when the name is in
\* the subroutine scope, otherwise the class-scope symbol when the name is in
\* the class scope, otherwise an error.
C5_LookupOrder ==
    lastCall.op = "Lookup" =>
        LET n == lastCall.name
            r == lastCall.ret
        IN  /\ n \in DOMAIN functionScopeTable =>
                  r.err = FALSE /\ r.symbol = functionScopeTable[n]
            /\ (n \notin DOMAIN functionScopeTable /\ n \in DOMAIN classScopeTable) =>
                  r.err = FALSE /\ r.symbol = classScopeTable[n]
            /\ (n \notin DOMAIN functionScopeTable /\ n \notin DOMAIN classScopeTable) =>
                  r.err = TRUE

\* Lookup has just run on a name that both scopes hold, with different symbols.
C5_Witness ==
    /\ lastCall.op = "Lookup"
    /\ lastCall.name \in DOMAIN functionScopeTable
    /\ lastCall.name \in DOMAIN classScopeTable
    /\ functionScopeTable[lastCall.name] # classScopeTable[lastCall.name]
    /\ lastCall.ret.symbol = functionScopeTable[lastCall.name]

-----------------------------------------------------------------------------
(* Claims about Compile(), checked under Spec.                             *)

\* Compile() has returned, or a panic has stopped it.
Ended == pc \in {"done", "panic"}

\* Every subroutine of the class is compiled, or a panic has stopped the compiler.
SubroutinesEnded == pc \in {"consumeClassEnd", "done", "panic"}

\* The positions of the function commands in the output.
FunctionCommands == {i \in 1 .. Len(output) : output[i][1] = "function"}

\* The function command of the subroutine compiled last.
LastFunction ==
    output[CHOOSE i \in FunctionCommands : \A j \in FunctionCommands : j <= i]

\* The positions in the token stream where a subroutine declaration starts.
SubroutineStarts ==
    {p \in 1 .. Len(tokens) : tokens[p] \in {KW(kind) : kind \in SubroutineKinds}}

\* Where the declaration of the subroutine of the function command at i starts.
SubroutineOf(i) ==
    CHOOSE p \in SubroutineStarts :
        Cardinality({q \in SubroutineStarts : q <= p})
            = Cardinality({j \in FunctionCommands : j <= i})

\* The body of the subroutine of the function command at i is `return this;`.
ReturnsThis(i) ==
    \E p \in 1 .. Len(tokens) - 1 :
        /\ tokens[p] = KW("return") /\ tokens[p + 1] = KW("this")
        /\ SubroutineOf(i) < p
        /\ \A q \in SubroutineStarts : q > SubroutineOf(i) => p < q

\* The number of fields the class declares.
FieldCount ==
    Cardinality({p \in 1 .. Len(tokens) :
        /\ tokens[p].tokenType = Identifier
        /\ \E k \in 1 .. p - 2 :
              tokens[k] = KW("field") /\ \A j \in k .. p : tokens[j] # SY(";")})

\* C1: Compile() on exactly one well-formed class, the closing brace being
\* the last token, finishes without a fatal error, and emits no command for
\* an empty class; with any token after the closing brace it ends in a fatal
\* error.  (Stated over the classes without subroutines.)
C1_EndOfStream ==
    \A ns \in 0 .. MaxFields, nf \in 0 .. MaxFields, trailer \in Trailers :
        (tokens = BareClass(ns, nf) \o trailer /\ Ended) =>
            IF trailer = <<>>
            THEN pc = "done" /\ (ns = 0 /\ nf = 0 => output = <<>>)
            ELSE pc = "panic"

\* C3: compiling a subroutine declaration leaves every static and field
\* symbol of the class scope as it was, puts no `var` into the class scope,
\* and leaves every field resolving to its segment `this` and its index.
C3_ClassScopeKept ==
    [][pc = "compileSubroutineDec" =>
          /\ \A n \in DOMAIN classScopeTable :
                classScopeTable[n].symbolType \in {StaticSymbol, FieldSymbol} =>
                    /\ n \in DOMAIN classScopeTable'
                    /\ classScopeTable'[n] = classScopeTable[n]
                    /\ Lookup(symbolTable', n).symbol = classScopeTable[n]
          /\ \A n \in DOMAIN classScopeTable' :
                classScopeTable'[n].symbolType # VarSymbol]_vars

\* C6: after a subroutine is compiled, whatever the subroutines before it
\* declared, its first parameter has argument index 0 (index 1 in a method)
\* and its first `var` has index 0.
C6_IndicesRestart ==
    (pc = "compileSubroutineDec" /\ FunctionCommands # {}) =>
        /\ "a1" \in DOMAIN functionScopeTable =>
              /\ functionScopeTable["a1"].symbolType = ArgumentSymbol
              /\ functionScopeTable["a1"].index
                    = (IF LastFunction[2] = "A.get" THEN 1 ELSE 0)
        /\ Lookup(symbolTable, "v1").err = FALSE =>
              /\ Lookup(symbolTable, "v1").symbol.symbolType = VarSymbol
              /\ Lookup(symbolTable, "v1").symbol.index = 0

\* C7: a method declares `this`, of the type of the class, as argument 0, so
\* that its parameters have the argument indices 1, 2, ...; right after its
\* function command come `push argument 0` and `pop pointer 0`.  After the
\* function command of a function comes its body (here `return;`).
C7_MethodPrelude ==
    /\ \A i \in FunctionCommands :
          output[i][2] = "A.get" =>
              /\ Len(output) >= i + 2
              /\ output[i + 1] = <<"push", ArgumentVMSegment, 0>>
              /\ output[i + 2] = <<"pop", PointerVMSegment, 0>>
    /\ (pc = "compileSubroutineDec" /\ FunctionCommands # {}) =>
          (LastFunction[2] = "A.get" =>
              /\ "this" \in DOMAIN functionScopeTable
              /\ functionScopeTable["this"]
                    = [symbolType |-> ArgumentSymbol, variableType |-> currentClassName,
                       index |-> 0]
              /\ \A k \in 1 .. MaxDecls :
                    Names("a", k)[k] \in DOMAIN functionScopeTable =>
                        functionScopeTable[Names("a", k)[k]].index = k)
    /\ tokens \in ClassPrograms =>
          \A i \in FunctionCommands :
              output[i][2] = "A.f" =>
                  /\ Len(output) >= i + 2
                  /\ output[i + 1] = <<"push", ConstVMSegment, 0>>
                  /\ output[i + 2] = <<"return">>

\* C8: right after the function command of a constructor of a class with n
\* fields come `push constant n`, `call Memory.alloc 1` and `pop pointer 0`,
\* and its `return this;` emits `push pointer 0` and `return`.
C8_ConstructorPrelude ==
    \A i \in FunctionCommands :
        output[i][2] = "A.new" =>
            /\ Len(output) >= i + 3
            /\ output[i + 1] = <<"push", ConstVMSegment, FieldCount>>
            /\ output[i + 2] = <<"call", "Memory.alloc", 1>>
            /\ output[i + 3] = <<"pop", PointerVMSegment, 0>>
            /\ ReturnsThis(i) =>
                  /\ Len(output) >= i + 5
                  /\ output[i + 4] = <<"push", PointerVMSegment, 0>>
                  /\ output[i + 5] = <<"return">>

\* The command a term of Terms compiles to, in f(B a1).
TermCommand(term) ==
    IF term = ID("a1") THEN <<"push", ArgumentVMSegment, 0>>
                       ELSE <<"push", ConstVMSegment, Atoi(term.terminal).value>>

\* The commands of the terms, in their order.
TermCommands(terms) == [i \in 1 .. Len(terms) |-> TermCommand(terms[i])]

\* What the claim C9 has a call emit, in f(B a1) with var B v1 of class A.
CallCommands(target, args) ==
    CASE target = <<ID("g")>> ->
            <<<<"push", PointerVMSegment, 0>>>> \o TermCommands(args)
            \o <<<<"call", "A.g", Len(args) + 1>>>>
      [] target[1] = ID("v1") ->
            <<<<"push", LocalVMSegment, 0>>>> \o TermCommands(args)
            \o <<<<"call", "B.m", Len(args) + 1>>>>
      [] target[1] = ID("a1") ->
            <<<<"push", ArgumentVMSegment, 0>>>> \o TermCommands(args)
            \o <<<<"call", "B.m", Len(args) + 1>>>>
      [] OTHER -> TermCommands(args) \o <<<<"call", "C.m", Len(args)>>>>

\* C9: a call with k arguments emits, for f(...): `push pointer 0`, the
\* arguments, `call <class>.f k+1`; for v.m(...) on a declared variable v:
\* `push <segment of v> <index of v>`, the arguments, `call <type of v>.m k+1`;
\* for C.m(...) on a name that is no variable: the arguments, `call C.m k`.
C9_CallForms ==
    \A target \in CallTargets, args \in SeqsUpTo(Terms, MaxArgs) :
        (tokens = StatementProgram(DoTokens(target, args)) /\ SubroutinesEnded) =>
            output = <<<<"function", "A.f", 1>>>>
                     \o CallCommands(target, args)
                     \o <<<<"pop", TempVMSegment, 0>>,
                          <<"push", ConstVMSegment, 0>>, <<"return">>>>

\* The command of a binary operator.
OpCommand(op) ==
    CASE op = "+" -> <<"add">>
      [] op = "-" -> <<"sub">>
      [] op = "<" -> <<"lt">>
      [] OTHER -> <<"call", "Math.multiply", 2>>

\* code(t1), code(t2), cmd(op1), code(t3), cmd(op2), ...
ExpressionCommands(terms, ops) ==
    <<TermCommand(terms[1])>>
    \o Flatten([i \in 1 .. Len(ops) |-> <<TermCommand(terms[i + 1]), OpCommand(ops[i])>>])

\* C10: an expression with any number N >= 0 of binary operators is accepted
\* and compiled left to right without precedence: code(t1), code(t2),
\* cmd(op1), code(t3), cmd(op2), ...
C10_LeftToRight ==
    \A n \in 0 .. MaxOps :
        \A terms \in [1 .. n + 1 -> Terms], ops \in [1 .. n -> ExpressionOps] :
            (tokens = StatementProgram(LetTokens(terms, ops)) /\ SubroutinesEnded) =>
                output = <<<<"function", "A.f", 1>>>>
                         \o ExpressionCommands(terms, ops)
                         \o <<<<"pop", LocalVMSegment, 0>>,
                              <<"push", ConstVMSegment, 0>>, <<"return">>>>

\* The output of f(B a1) with var B v1 whose statements emit the commands.
StatementOutput(commands) ==
    <<<<"function", "A.f", 1>>>> \o commands
    \o <<<<"push", ConstVMSegment, 0>>, <<"return">>>>

\* C11: `let name[e] = rhs;` is accepted and emits code(e), `push <seg(name)>
\* <idx(name)>`, `add`, code(rhs), `pop temp 0`, `pop pointer 1`, `push temp 0`,
\* `pop that 0`; `let name = rhs;` emits code(rhs), `pop <seg(name)> <idx(name)>`.
C11_LetForms ==
    /\ \A index \in Terms, value \in Terms :
          (/\ tokens = StatementProgram(<<KW("let"), ID("v1"), SY("["), index, SY("]"),
                                          SY("="), value, SY(";")>>)
           /\ SubroutinesEnded) =>
              output = StatementOutput(
                          <<TermCommand(index), <<"push", LocalVMSegment, 0>>, <<"add">>,
                            TermCommand(value), <<"pop", TempVMSegment, 0>>,
                            <<"pop", PointerVMSegment, 1>>, <<"push", TempVMSegment, 0>>,
                            <<"pop", ThatVMSegment, 0>>>>)
    /\ \A value \in Terms :
          (tokens = StatementProgram(LetTokens(<<value>>, <<>>)) /\ SubroutinesEnded) =>
              output = StatementOutput(<<TermCommand(value), <<"pop", LocalVMSegment, 0>>>>)

\* C12: the term `name[e]` emits code(e), `push <seg(name)> <idx(name)>`, `add`,
\* `pop pointer 1`, `push that 0`, which leaves the element on the stack.
C12_ArrayRead ==
    \A index \in Terms :
        (/\ tokens = StatementProgram(<<KW("let"), ID("v1"), SY("="), ID("a1"), SY("["),
                                        index, SY("]"), SY(";")>>)
         /\ SubroutinesEnded) =>
            output = StatementOutput(
                        <<TermCommand(index), <<"push", ArgumentVMSegment, 0>>, <<"add">>,
                          <<"pop", PointerVMSegment, 1>>, <<"push", ThatVMSegment, 0>>,
                          <<"pop", LocalVMSegment, 0>>>>)

\* The four commands that append the character of each code point, in order.
AppendCommands(runes) ==
    Flatten([i \in 1 .. Len(runes) |->
                <<<<"push", TempVMSegment, 0>>, <<"push", ConstVMSegment, runes[i]>>,
                  <<"call", "String.appendChar", 2>>, <<"pop", TempVMSegment, 1>>>>])

\* C13: a string constant of n characters emits `push constant n`, `call
\* String.new 1`, `pop temp 0`, for each character in order `push temp 0`,
\* `push constant ord(c)`, `call String.appendChar 2`, `pop temp 1`, then
\* `push temp 0`; the token is consumed and the compilation goes on without error.
C13_StringConstant ==
    \A constant \in Strings :
        (/\ tokens = StatementProgram(<<KW("let"), ID("v1"), SY("="), STR(constant), SY(";")>>)
         /\ SubroutinesEnded) =>
            output = StatementOutput(
                        <<<<"push", ConstVMSegment, Len(Runes(constant))>>,
                          <<"call", "String.new", 1>>, <<"pop", TempVMSegment, 0>>>>
                        \o AppendCommands(Runes(constant))
                        \o <<<<"push", TempVMSegment, 0>>, <<"pop", LocalVMSegment, 0>>>>)

\* The prefix of the k-th label generated.
Prefix(k) == "L" \o ToString(k) \o ":"

RECURSIVE BlockCommands(_, _)

\* What the claims C14 and C15 have a statement emit when k labels were
\* generated before it: the commands, and the number of labels generated after it.
StatementCommands(statement, k) ==
    CASE statement.kind = "let" ->
            [commands |-> <<<<"push", ConstVMSegment, 1>>, <<"pop", LocalVMSegment, 0>>>>,
             k |-> k]
      [] statement.kind \in {"if", "ifelse"} ->
            LET then == BlockCommands(statement.then, k + 1)
                else == BlockCommands(statement.else, then.k)
            IN  [commands |->
                    ExpressionCommands(statement.cond.terms, statement.cond.ops)
                    \o <<<<"not">>, <<"if-goto", Prefix(k) \o "ELSE">>>>
                    \o then.commands
                    \o <<<<"goto", Prefix(k) \o "END">>, <<"label", Prefix(k) \o "ELSE">>>>
                    \o else.commands
                    \o <<<<"label", Prefix(k) \o "END">>>>,
                 k |-> else.k]
      [] OTHER ->
            LET body == BlockCommands(statement.then, k + 1)
            IN  [commands |->
                    <<<<"label", Prefix(k) \o "BEGIN">>>>
                    \o ExpressionCommands(statement.cond.terms, statement.cond.ops)
                    \o <<<<"not">>, <<"if-goto", Prefix(k) \o "EXIT">>>>
                    \o body.commands
                    \o <<<<"goto", Prefix(k) \o "BEGIN">>, <<"label", Prefix(k) \o "EXIT">>>>,
                 k |-> body.k]

BlockCommands(block, k) ==
    IF block = <<>> THEN [commands |-> <<>>, k |-> k]
    ELSE LET head == StatementCommands(Head(block), k)
             tail == BlockCommands(Tail(block), head.k)
         IN  [commands |-> head.commands \o tail.commands, k |-> tail.k]

\* The token stream and the claimed output of every if statement.
IfCases ==
    {<<StatementProgram(StatementTokens(statement)),
       StatementOutput(StatementCommands(statement, 0).commands)>> :
        statement \in IfStatements}

\* C14: an if statement with the fresh prefix P emits, in this order,
\* code(condition), `not`, `if-goto PELSE`, code(then block), `goto PEND`,
\* `label PELSE`, code(else block) when there is an else, `label PEND`: one
\* `if-goto PELSE` and one `goto PEND` for each if statement.
C14_IfOrder ==
    (SubroutinesEnded /\ tokens \in IfPrograms) =>
        \A case \in IfCases : tokens = case[1] => output = case[2]

\* An if with an else whose then block holds an if is compiled: the labels
\* of both are in the output.
C14_Witness ==
    /\ pc = "consumeClassEnd"
    /\ tokens \in IfPrograms
    /\ \E i, j \in 1 .. Len(output) :
          /\ i < j
          /\ output[i] = <<"label", "L1:END">>
          /\ output[j] = <<"label", "L0:ELSE">>
    /\ \E p \in 1 .. Len(tokens) : tokens[p] = KW("else")

\* The token stream and the claimed output of every while statement.
WhileCases ==
    {<<StatementProgram(StatementTokens(statement)),
       StatementOutput(StatementCommands(statement, 0).commands)>> :
        statement \in WhileStatements}

\* C15: a while statement with the fresh prefix P emits, in this order,
\* `label PBEGIN`, code(condition), `not`, `if-goto PEXIT`, code(body),
\* `goto PBEGIN`, `label PEXIT`.
C15_WhileOrder ==
    (SubroutinesEnded /\ tokens \in WhilePrograms) =>
        \A case \in WhileCases : tokens = case[1] => output = case[2]

\* A while whose body holds a while is compiled: the inner loop lies
\* between the outer `if-goto` and the outer `goto`.
C15_Witness ==
    /\ pc = "consumeClassEnd"
    /\ tokens \in WhilePrograms
    /\ \E i, j, k \in 1 .. Len(output) :
          /\ i < j /\ j < k
          /\ output[i] = <<"if-goto", "L0:EXIT">>
          /\ output[j] = <<"label", "L1:EXIT">>
          /\ output[k] = <<"goto", "L0:BEGIN">>

\* C16: a classVarDec, varDec, parameter or subroutine header whose type or
\* name token is not of the required class causes a fatal parse error; no
\* symbol is declared and no command is emitted for it.
C16_TypesAndNamesChecked ==
    tokens \in MalformedPrograms =>
        /\ classScopeTable = EmptyTable
        /\ functionScopeTable = EmptyTable
        /\ output = <<>>
        /\ pc # "done"
        /\ pc = "panic" => pos < Len(tokens)

\* C17: an integer constant of 1 to 5 digits and of value n emits `push
\* constant n` when n <= 32767 and `push constant 0` when n > 32767, and the
\* compilation goes on; no command pushes a constant outside 0..32767.
C17_IntegerConstant ==
    /\ \A digits \in IntegerLiterals :
          (/\ tokens = StatementProgram(LetTokens(<<INT(digits)>>, <<>>))
           /\ SubroutinesEnded) =>
              output = StatementOutput(
                          <<<<"push", ConstVMSegment,
                              IF DigitsValue(digits, 0) <= 32767
                              THEN DigitsValue(digits, 0) ELSE 0>>,
                            <<"pop", LocalVMSegment, 0>>>>)
    /\ \A i \in 1 .. Len(output) :
          (output[i][1] = "push" /\ output[i][2] = ConstVMSegment) =>
              output[i][3] \in 0 .. 32767

\* The constant 32768 is compiled to `push constant 0` and the statement
\* after it is compiled too.
C17_Witness ==
    /\ pc = "consumeClassEnd"
    /\ tokens = StatementProgram(LetTokens(<<INT(<<3, 2, 7, 6, 8>>)>>, <<>>))
    /\ output[2] = <<"push", ConstVMSegment, 0>>
    /\ output[Len(output)] = <<"return">>

\* The positions among the tokens consumed that hold the keyword if or while: the
\* statements begun, in the order in which they begin.
StatementsBegun ==
    {p \in 1 .. pos : p <= Len(tokens) /\ tokens[p] \in {KW("if"), KW("while")}}

\* The p-th position of a set of positions, counted from 0.
Nth(positions, k) == CHOOSE p \in positions : Cardinality({q \in positions : q < p}) = k

\* The commands of the output that name a label.
IsJump(command) == command[1] \in {"label", "goto", "if-goto"}

\* The label names with the prefix of the k-th label generated.
LabelNames(k) == {Prefix(k) \o suffix : suffix \in {"BEGIN", "EXIT", "ELSE", "END"}}

\* The commands naming a label of the prefix L<k>:, in the order of the output.
JumpsOf(k) == SelectSeq(output, LAMBDA command : IsJump(command) /\ command[2] \in LabelNames(k))

WhileJumps(k) ==
    <<<<"label", Prefix(k) \o "BEGIN">>, <<"if-goto", Prefix(k) \o "EXIT">>,
      <<"goto", Prefix(k) \o "BEGIN">>, <<"label", Prefix(k) \o "EXIT">>>>

IfJumps(k) ==
    <<<<"if-goto", Prefix(k) \o "ELSE">>, <<"goto", Prefix(k) \o "END">>,
      <<"label", Prefix(k) \o "ELSE">>, <<"label", Prefix(k) \o "END">>>>

\* The state part of C21.
LabelsFresh ==
    /\ \A i \in 1 .. Len(output) :
          IsJump(output[i]) => \E k \in 0 .. nextLabelID - 1 : output[i][2] \in LabelNames(k)
    /\ \A i, j \in 1 .. Len(output) :
          (i < j /\ output[i][1] = "label" /\ output[j][1] = "label") =>
              output[i][2] # output[j][2]
    /\ pc # "panic" =>
          /\ nextLabelID = Cardinality(StatementsBegun)
          /\ \A k \in 0 .. nextLabelID - 1 :
                JumpsOf(k) = (IF tokens[Nth(StatementsBegun, k)] = KW("while")
                              THEN WhileJumps(k) ELSE IfJumps(k))

\* C21: the label counter never decreases, and the k-th if or while statement
\* to begin in the class (k from 0, nested statements and later subroutines
\* included) is the one that uses the prefix L<k>: -- so no two label commands
\* name the same label, and the goto and if-goto of a statement target the
\* labels emitted for that statement.
C21_LabelsDistinct == [] LabelsFresh /\ [][nextLabelID' >= nextLabelID]_vars

\* A class is compiled whose first subroutine holds a while with an if and a
\* while in its body and whose second subroutine holds two statements: the
\* second subroutine's labels go on from L3:.
C21_Witness ==
    /\ pc = "consumeClassEnd"
    /\ panic = ""
    /\ tokens \in LabelPrograms
    /\ nextLabelID = 5
    /\ JumpsOf(0) = WhileJumps(0)
    /\ JumpsOf(1) = IfJumps(1)
    /\ JumpsOf(2) = WhileJumps(2)
    /\ JumpsOf(3) = IfJumps(3)
    /\ \E i, j \in 1 .. Len(output) :
          /\ i < j
          /\ output[i] = <<"function", "A.f2", 0>>
          /\ output[j] = <<"label", "L4:BEGIN">>

\* The values a VM command takes from the stack.
Operands(command) ==
    CASE command[1] \in {"add", "sub", "and", "or", "lt", "gt", "eq"} -> 2
      [] command[1] \in {"neg", "not", "pop"} -> 1
      [] command[1] = "call" -> command[3]
      [] OTHER -> 0

\* The values a VM command leaves on the stack.
Results(command) ==
    CASE command[1] \in {"add", "sub", "and", "or", "lt", "gt", "eq", "neg", "not",
                         "push", "call"} -> 1
      [] OTHER -> 0

\* The depth of the stack after the first n of the commands, from depth 0.
RECURSIVE Depth(_, _)
Depth(commands, n) ==
    IF n = 0 THEN 0
    ELSE Depth(commands, n - 1) - Operands(commands[n]) + Results(commands[n])

\* `let v1 = <expression>;` of f is compiled: the commands between `function A.f 1`
\* and the `pop local 0` of the let are those compileExpression emitted.
ExpressionCompiled ==
    /\ pc = "consumeClassEnd"
    /\ tokens \in StackPrograms
    /\ Len(output) >= 4
    /\ output[Len(output) - 2] = <<"pop", LocalVMSegment, 0>>

ExpressionCode == SubSeq(output, 2, Len(output) - 3)

\* C22: the commands compileExpression emits for an expression it accepts leave
\* the stack one value deeper than they found it, and no command among them
\* takes a value from below the depth at which the expression began: every
\* operator and call finds all its operands pushed before it.
C22_StackDiscipline ==
    ExpressionCompiled =>
        /\ Depth(ExpressionCode, Len(ExpressionCode)) = 1
        /\ \A n \in 1 .. Len(ExpressionCode) :
              Depth(ExpressionCode, n - 1) >= Operands(ExpressionCode[n])

-----------------------------------------------------------------------------
(* Claims about the tokenizer, checked under SpecTokenizer.                *)

\* The latest Scan() returned true: tokenizer.token is the lexeme it matched and
\* tokenizer.nextToken the token made of it.
Scanned == pc = "Scan" /\ lastCall.op = "Scan"

\* The characters of the comment-stripped stream right after the lexeme: what is
\* left in the scanner's buffer, or else what the FilteredReader delivers next.
Following(t) == IF t.buf # <<>> THEN t.buf ELSE Read(t.input, t.rpos, 1).b

\* The lexeme has the form [A-Za-z_][A-Za-z0-9_]*.
IsWord(lexeme) ==
    /\ lexeme # <<>>
    /\ lexeme[1] \in LetterChars \cup {"_"}
    /\ \A k \in 1 .. Len(lexeme) : lexeme[k] \in WordChars

\* C18: every token is the longest match at its position, and of the classes
\* matching that length the first: a word is a Keyword exactly when it is one of
\* the 21 keywords and an Identifier otherwise and is never cut short of the
\* word characters that follow it; an integer constant is cut only at five
\* digits; a symbol token is one character.
C18_LongestMatch ==
    Scanned =>
        /\ IsWord(tokenizer.token) =>
              /\ tokenizer.nextToken.tokenType =
                    (IF tokenizer.token \in Keywords THEN Keyword ELSE Identifier)
              /\ \/ Following(tokenizer) = <<>>
                 \/ Following(tokenizer)[1] \notin WordChars
        /\ tokenizer.nextToken.tokenType \in {Keyword, Identifier} => IsWord(tokenizer.token)
        /\ tokenizer.nextToken.tokenType = IntegerConstant =>
              \/ Len(tokenizer.token) = MaxDigits
              \/ Following(tokenizer) = <<>>
              \/ Following(tokenizer)[1] \notin DigitChars
        /\ tokenizer.nextToken.tokenType = SymbolTokenType => Len(tokenizer.token) = 1
        /\ tokenizer.nextToken.terminal =
              (IF tokenizer.nextToken.tokenType = StringConstant
               THEN Text(SubSeq(tokenizer.token, 2, Len(tokenizer.token) - 1))
               ELSE Text(tokenizer.token))

\* The position of the first `*/` at or after position from, -1 when there is none.
ClosingStarSlash(input, from) ==
    Leftmost({p \in from .. Len(input) - 2 : input[p + 1] = Star /\ input[p + 2] = Slash})

\* The stream with every comment replaced by one space, as far as its comments are
\* closed: text is the stream so rewritten, closed tells whether every comment met
\* its end (a newline, or the first `*/` after the introducer).
RECURSIVE Uncomment(_, _, _)

UncommentLine(input, text, newline) ==
    IF newline < 0 THEN [text |-> text, closed |-> FALSE]
    ELSE Uncomment(input, newline + 1, Append(text, " "))

UncommentBlock(input, text, close) ==
    IF close < 0 THEN [text |-> text, closed |-> FALSE]
    ELSE Uncomment(input, close + 2, Append(text, " "))

UncommentSlash(input, from, text, slash) ==
    IF slash < 0 \/ slash + 1 = Len(input)
    THEN [text |-> text \o SubSeq(input, from + 1, Len(input)), closed |-> TRUE]
    ELSE IF input[slash + 2] = Slash
         THEN UncommentLine(input, text \o SubSeq(input, from + 1, slash),
                            NextIndex(input, slash + 2, {Newline}))
         ELSE IF input[slash + 2] = Star
              THEN UncommentBlock(input, text \o SubSeq(input, from + 1, slash),
                                  ClosingStarSlash(input, slash + 2))
              ELSE Uncomment(input, slash + 1, text \o SubSeq(input, from + 1, slash + 1))

Uncomment(input, from, text) ==
    UncommentSlash(input, from, text, NextIndex(input, from, {Slash}))

\* The tokens a caller collects from a tokenizer by scanning until Scan() returns
\* false or panics.
RECURSIVE Collect(_, _)
Collect(t, collected) ==
    IF t.panic # "" \/ ~t.ret THEN collected
    ELSE Collect(tokenizerScan(t), Append(collected, tokenizerToken(t)))

TokensOf(input) == Collect(tokenizerScan(NewTokenizer(input)), <<>>)

\* The scan of the stream is over: Scan() returned false or panicked.
ScanOver == pc \in {"Err", "done", "panic"}

\* C19: for a stream without quotes whose comments are all closed, the tokens
\* scanned are those of the stream with each comment replaced by one space:
\* comment text gives no token, the tokens on the two sides of a comment stay
\* apart, and a slash that opens no comment is a Symbol token.
C19_CommentsInsignificant ==
    (/\ ScanOver
     /\ Quote \notin {tokenizer.input[k] : k \in 1 .. Len(tokenizer.input)}
     /\ Uncomment(tokenizer.input, 0, <<>>).closed) =>
        tokens = TokensOf(Uncomment(tokenizer.input, 0, <<>>).text)

\* The scanner stopped on a lexical error: the FilteredReader met the end of the
\* stream inside a block comment, or splitToken found no token in what is left.
LexicalError == tokenizer.scanErr \in {"Unclosed comment!", "Unkown token"}

\* C20: when the scan stops on a lexical error, Scan() has returned false and
\* Err() then returns an error, which tells the failure from the end of input.
C20_ErrReported ==
    (pc = "done" /\ LexicalError) =>
        /\ ~tokenizer.ret
        /\ lastCall.op = "Err"
        /\ lastCall.ret # ""

-----------------------------------------------------------------------------
(* Claims about the split function, checked under SpecSplit.               *)

RECURSIVE WholeTokens(_, _)

\* The tokens of a text that is presented whole: r is what splitToken returned
\* on the rest of the text with atEOF true.
WholeTokensNext(rest, collected, r) ==
    IF r.err # "" \/ r.isNil THEN collected
    ELSE WholeTokens(SubSeq(rest, r.advance + 1, Len(rest)),
                     Append(collected, parseToken(r.token).token))

WholeTokens(rest, collected) == WholeTokensNext(rest, collected, splitToken(rest, TRUE))

\* first is the beginning of second, or all of it.
IsPrefix(first, second) ==
    Len(first) <= Len(second) /\ first = SubSeq(second, 1, Len(first))

\* C23: however the text reaches the split function, the tokens returned are
\* those of the text presented whole: splitToken never returns, while more of
\* the text is to come, a token that is cut short of the longest match, and
\* at the end of the scan the two token sequences are the same.
C23_DeliveryIndependent ==
    /\ IsPrefix(tokens, WholeTokens(tokenizer.input, <<>>))
    /\ (pc = "done" /\ tokenizer.scanErr = "EOF") =>
            tokens = WholeTokens(tokenizer.input, <<>>)

====
